---------------------------- MODULE Spec2Model ----------------------------
(***************************************************************************)
(* Queue-time metrics: the web application (hack_webapp.py), the command   *)
(* line collector (queue_stats_collector.py) and the persistent monitor    *)
(* (k8s-queue-monitor/queue_time_collector.py, process_logs.py).           *)
(*                                                                         *)
(* Spec        the web application: concurrent start_collection requests   *)
(*             and the collection threads they start.                      *)
(* SpecCli     one QueueTimeStatsCollector run from the command line.      *)
(* SpecSampler the sampling cycle of both collectors over a cluster whose  *)
(*             pods are created and started while the collectors sample.   *)
(* SpecDedup   the deduplication step of process_logs.main.                *)
(* SpecStore   the history file of the monitor across restarts.            *)
(* SpecStats   generate_statistics over a given all_data.                  *)
(* SpecFormat  the duration decomposition over one sampled pod.            *)
(* SpecRecent  the web application after earlier runs, with start requests *)
(*             that arrive between runs.                                   *)
(* SpecSerial  the web application with start calls that do not overlap.   *)
(* SpecFair    the web application with threads that keep running.         *)
(* SpecReader  the history file while it is written and read.              *)
(***************************************************************************)
EXTENDS Integers, Sequences, FiniteSets, TLC

VARIABLES
    active,        \* collection_status['active']
    current_run,   \* collection_status['current_run']: a run object, or None
    recent_runs,   \* collection_status['recent_runs']: run objects, newest first
    runs,          \* the run dictionaries, by object identity
    req,           \* each start_collection call: position, arguments, result
    thread,        \* each collection_thread: position and pending exception
    collectors,    \* the QueueTimeStatsCollector objects
    clock,         \* the wall clock, in seconds
    pods,          \* the cluster: what "kubectl get pods" would list
    kubectl_mode,  \* whether the kubectl call works: "ok", "exit_nonzero", "bad_json"
    monitor,       \* the QueueTimeCollector object of the persistent monitor
    csv_file,      \* queue_time_history.csv
    logs_pc,       \* process_logs: the position in main
    raw_data,      \* process_logs: the rows read from the input file
    dedup_data,    \* process_logs: the rows after deduplication
    logs_ns_stats  \* process_logs: the statistics by namespace, as saved

vars == <<active, current_run, recent_runs, runs, req, thread, collectors,
          clock, pods, kubectl_mode, monitor, csv_file, logs_pc, raw_data,
          dedup_data, logs_ns_stats>>

webVars == <<active, current_run, recent_runs, runs, req, thread>>
monitorVars == <<monitor, csv_file>>
logsVars == <<logs_pc, raw_data, dedup_data, logs_ns_stats>>

(***************************************************************************)
(* Bounds of the model.                                                    *)
(***************************************************************************)
MaxRequests == 2

None == 0
Req == 1..MaxRequests

(***************************************************************************)
(* Program constants.                                                      *)
(***************************************************************************)
ThirtyDays == 30 * 24 * 60 * 60
max_recent_runs == 10
DefaultExcluded == {"kube-system"}

(***************************************************************************)
(* Helpers.                                                                *)
(***************************************************************************)
Msg(tag, a, b) == [tag |-> tag, a |-> a, b |-> b]

\* Python's int(x / y) for integers x, y with y # 0: the quotient truncated
\* toward zero.
PyIntDiv(x, y) ==
    IF (x >= 0 /\ y > 0) \/ (x <= 0 /\ y < 0)
    THEN (IF x >= 0 THEN x ELSE -x) \div (IF y >= 0 THEN y ELSE -y)
    ELSE -((IF x >= 0 THEN x ELSE -x) \div (IF y >= 0 THEN y ELSE -y))

\* The sequences over S of length at most n.
RECURSIVE SeqsUpTo(_, _)
SeqsUpTo(S, n) ==
    IF n = 0 THEN {<<>>}
    ELSE LET shorter == SeqsUpTo(S, n - 1)
         IN shorter \cup {Append(q, x) : q \in {r \in shorter : Len(r) = n - 1}, x \in S}

\* A timestamp field of a pod: absent, a string pandas cannot parse, or an
\* instant in whole seconds.
NoTime == [kind |-> "none", t |-> 0]
BadTime == [kind |-> "malformed", t |-> 0]
Time(t) == [kind |-> "time", t |-> t]

Pod(ns, name, uid, created, started) ==
    [namespace |-> ns, name |-> name, uid |-> uid,
     creationTimestamp |-> created, startTime |-> started]

\* The outcome of the kubectl call: the process exits nonzero, its output
\* is not JSON, or it lists the pods.
KubectlFailed == [kind |-> "exit_nonzero", items |-> <<>>]
KubectlGarbage == [kind |-> "bad_json", items |-> <<>>]
KubectlOk(items) == [kind |-> "ok", items |-> items]

\* A variant that counts whole hours and no days, as format_time of
\* process_logs.py does.
format_time_components_hours(seconds) ==
    LET hours == seconds \div 3600
        r2 == seconds % 3600
        minutes == r2 \div 60
        secs == r2 % 60
    IN [Days |-> 0, Hours |-> hours, Minutes |-> minutes, Seconds |-> secs,
        Formatted |-> <<0, "d", hours, "h", minutes, "m", secs, "s">>]

\* QueueTimeStatsCollector.format_time_components, of a whole number of
\* seconds: divmod by 86400, 3600 and 60; the string is kept as its parts.
format_time_components(seconds) ==
    LET days == seconds \div 86400
        r1 == seconds % 86400
        hours == r1 \div 3600
        r2 == r1 % 3600
        minutes == r2 \div 60
        secs == r2 % 60
    IN [Days |-> days, Hours |-> hours, Minutes |-> minutes, Seconds |-> secs,
        Formatted |-> <<days, "d", hours, "h", minutes, "m", secs, "s">>]

\* QueueTimeCollector.format_time: the same decomposition, returned as the
\* string only.
format_time(seconds) ==
    LET days == seconds \div 86400
        r1 == seconds % 86400
        hours == r1 \div 3600
        r2 == r1 % 3600
        minutes == r2 \div 60
        secs == r2 % 60
    IN <<days, "d", hours, "h", minutes, "m", secs, "s">>


(***************************************************************************)
(* The Sampler: collect_queue_times of both collectors.                    *)
(***************************************************************************)
\* One row of QueueTimeStatsCollector.collect_queue_times.
StatsRow(pod, queue_time, timestamp) ==
    LET tc == format_time_components(queue_time)
    IN [Timestamp |-> timestamp, Namespace |-> pod.namespace, Pod |-> pod.name,
        QueueTime |-> queue_time,
        Days |-> tc.Days, Hours |-> tc.Hours, Minutes |-> tc.Minutes,
        Seconds |-> tc.Seconds, QueueTimeFormatted |-> tc.Formatted,
        CreationTime |-> pod.creationTimestamp.t, StartTime |-> pod.startTime.t]

\* One row of QueueTimeCollector.collect_queue_times.
HistoryRow(pod, queue_time, timestamp) ==
    [Timestamp |-> timestamp, Namespace |-> pod.namespace, Pod |-> pod.name,
     PodUID |-> pod.uid, QueueTime |-> queue_time,
     CreationTime |-> pod.creationTimestamp.t, StartTime |-> pod.startTime.t]

\* pd.to_datetime raises on a string it cannot parse, and the subscript
\* pod['metadata']['creationTimestamp'] raises on a missing key.
ParseRaises(pod) ==
    \/ pod.creationTimestamp.kind # "time"
    \/ pod.startTime.kind # "time"

\* A variant that also drops a queue time of exactly 30 days.
UnreasonableFromCeiling(queue_time) == queue_time >= ThirtyDays

\* The test of the sanity ceiling.
Unreasonable(queue_time) == queue_time > ThirtyDays

\* A variant that compares with the default list only.
SkipNamespaceDefault(namespace, exclude_namespaces) == namespace \in DefaultExcluded

\* The test of the exclusion list.
SkipNamespace(namespace, exclude_namespaces) == namespace \in exclude_namespaces

\* A variant that takes every pod as started.
NotStartedNever(pod) == FALSE

\* pod.get('status', {}).get('startTime') is missing or empty: the pod is
\* still queued.
NotStarted(pod) == pod.startTime.kind = "none"

\* The loop over pods_data['items'] of QueueTimeStatsCollector: the rows and
\* the log lines so far, until the items are exhausted or an item raises.
RECURSIVE StatsLoop(_, _, _, _, _, _)
StatsLoop(items, k, exclude_namespaces, timestamp, rows, logs) ==
    IF k > Len(items) THEN [raised |-> FALSE, rows |-> rows, logs |-> logs]
    ELSE LET pod == items[k]
             queue_time == pod.startTime.t - pod.creationTimestamp.t
         IN IF SkipNamespace(pod.namespace, exclude_namespaces)
            THEN StatsLoop(items, k + 1, exclude_namespaces, timestamp, rows, logs)
            ELSE IF NotStarted(pod)
            THEN StatsLoop(items, k + 1, exclude_namespaces, timestamp, rows, logs)
            ELSE IF ParseRaises(pod)
            THEN [raised |-> TRUE, rows |-> rows, logs |-> logs]
            ELSE IF Unreasonable(queue_time)
            THEN StatsLoop(items, k + 1, exclude_namespaces, timestamp, rows,
                           Append(logs, Msg("skipping_pod", pod.uid, queue_time)))
            ELSE StatsLoop(items, k + 1, exclude_namespaces, timestamp,
                           Append(rows, StatsRow(pod, queue_time, timestamp)), logs)

\* A variant that returns the rows gathered before an item raised.
collect_queue_times_partial(kubectl, exclude_namespaces, timestamp) ==
    LET start == <<Msg("running_command", 0, 0)>>
        loop == StatsLoop(kubectl.items, 1, exclude_namespaces, timestamp, <<>>, start)
    IN IF kubectl.kind # "ok"
       THEN [df |-> <<>>, logs |-> Append(start, Msg("error_kubectl", 0, 0))]
       ELSE IF loop.raised
       THEN [df |-> loop.rows, logs |-> Append(loop.logs, Msg("error_unexpected", 0, 0))]
       ELSE [df |-> loop.rows, logs |-> loop.logs]

\* QueueTimeStatsCollector.collect_queue_times: the DataFrame returned and the
\* lines logged.  Every failure returns the empty DataFrame.
collect_queue_times(kubectl, exclude_namespaces, timestamp) ==
    LET start == <<Msg("running_command", 0, 0)>>
        loop == StatsLoop(kubectl.items, 1, exclude_namespaces, timestamp, <<>>, start)
    IN IF kubectl.kind = "exit_nonzero"
       THEN [df |-> <<>>,
             logs |-> start \o <<Msg("error_kubectl", 0, 0), Msg("command_output", 0, 0)>>]
       ELSE IF kubectl.kind = "bad_json"
       THEN [df |-> <<>>, logs |-> Append(start, Msg("error_json", 0, 0))]
       ELSE IF loop.raised
       THEN [df |-> <<>>, logs |-> Append(loop.logs, Msg("error_unexpected", 0, 0))]
       ELSE [df |-> loop.rows, logs |-> loop.logs]

\* The loop over pods_data['items'] of QueueTimeCollector.
RECURSIVE HistoryLoop(_, _, _, _, _)
HistoryLoop(items, k, exclude_namespaces, timestamp, rows) ==
    IF k > Len(items) THEN [raised |-> FALSE, rows |-> rows]
    ELSE LET pod == items[k]
             queue_time == pod.startTime.t - pod.creationTimestamp.t
         IN IF SkipNamespace(pod.namespace, exclude_namespaces)
            THEN HistoryLoop(items, k + 1, exclude_namespaces, timestamp, rows)
            ELSE IF NotStarted(pod)
            THEN HistoryLoop(items, k + 1, exclude_namespaces, timestamp, rows)
            ELSE IF ParseRaises(pod)
            THEN [raised |-> TRUE, rows |-> rows]
            ELSE IF Unreasonable(queue_time)
            THEN HistoryLoop(items, k + 1, exclude_namespaces, timestamp, rows)
            ELSE HistoryLoop(items, k + 1, exclude_namespaces, timestamp,
                             Append(rows, HistoryRow(pod, queue_time, timestamp)))

\* QueueTimeCollector.collect_queue_times: the DataFrame returned, and whether
\* the error line was printed.
QTC_collect_queue_times(kubectl, exclude_namespaces, timestamp) ==
    LET loop == HistoryLoop(kubectl.items, 1, exclude_namespaces, timestamp, <<>>)
    IN IF kubectl.kind # "ok" \/ loop.raised
       THEN [df |-> <<>>, error |-> TRUE]
       ELSE [df |-> loop.rows, error |-> FALSE]


(***************************************************************************)
(* The cluster data source.                                                *)
(***************************************************************************)
PodUids == 1..2

\* The pods of the cluster, in uid order, as "kubectl get pods -o json"
\* lists them.
RECURSIVE PodList(_, _)
PodList(cluster, uid) ==
    IF uid > 2 THEN <<>>
    ELSE (IF cluster[uid].present THEN <<cluster[uid].pod>> ELSE <<>>)
         \o PodList(cluster, uid + 1)

\* What the kubectl call returns now.
KubectlModes == {"ok", "exit_nonzero", "bad_json"}
KubectlResult ==
    IF kubectl_mode = "exit_nonzero" THEN KubectlFailed
    ELSE IF kubectl_mode = "bad_json" THEN KubectlGarbage
    ELSE KubectlOk(PodList(pods, 1))

AbsentPod == [present |-> FALSE, pod |-> Pod("", "", 0, NoTime, NoTime)]
PresentPod(p) == [present |-> TRUE, pod |-> p]

(***************************************************************************)
(* QueueTimeStatsCollector: construction and the collection loop.          *)
(***************************************************************************)
\* Besides the fields of the object: the position in run(), the number of
\* cycles and sleeps so far, and the locals of the latest cycle (df, and
\* the kubectl result of this cycle and of the one before).
\* What generate_statistics prints and writes to its files; nothing before
\* it has run to its end.
NoReport ==
    [written |-> FALSE, total_pods |-> 0, total_namespaces |-> 0,
     ns_stats |-> <<>>, top_pods |-> <<>>]

NoCollector ==
    [pc |-> "none", duration_mins |-> 0, interval_secs |-> 0,
     exclude_namespaces |-> {}, all_data |-> <<>>, logs |-> <<>>,
     iterations |-> 0, i |-> 0, cycles |-> 0, sleeps |-> 0,
     slept_last |-> FALSE, excel_path |-> FALSE, exception |-> "none",
     df |-> <<>>, pods_data |-> KubectlOk(<<>>), prev_pods_data |-> KubectlOk(<<>>),
     report |-> NoReport]

\* QueueTimeStatsCollector.__init__
NewCollector(duration_mins, interval_secs, exclude_namespaces) ==
    [NoCollector EXCEPT
        !.pc = "new",
        !.duration_mins = duration_mins,
        !.interval_secs = interval_secs,
        !.exclude_namespaces =
            IF exclude_namespaces = {} THEN DefaultExcluded ELSE exclude_namespaces,
        !.logs = <<Msg("starting", duration_mins, 0), Msg("excluding", 0, 0),
                   Msg("saved_to", 0, 0)>>]

RECURSIVE SumQueueTime(_)
SumQueueTime(df) ==
    IF df = <<>> THEN 0 ELSE Head(df).QueueTime + SumQueueTime(Tail(df))

MaxQueueTime(df) ==
    CHOOSE q \in {df[k].QueueTime : k \in 1..Len(df)} :
        \A k \in 1..Len(df) : df[k].QueueTime <= q

\* df['QueueTime'].idxmax(): the first row holding the maximum.
IdxMax(df) ==
    CHOOSE k \in 1..Len(df) :
        /\ df[k].QueueTime = MaxQueueTime(df)
        /\ \A j \in 1..(k - 1) : df[j].QueueTime # MaxQueueTime(df)

\* The lines run_collection logs for a cycle that returned rows.
CycleStats(df) ==
    <<Msg("collected", Len(df), Cardinality({df[k].Namespace : k \in 1..Len(df)})),
      Msg("average", SumQueueTime(df), Len(df)),
      Msg("maximum", MaxQueueTime(df), IdxMax(df))>>

MinQueueTime(df) ==
    CHOOSE q \in {df[k].QueueTime : k \in 1..Len(df)} :
        \A k \in 1..Len(df) : q <= df[k].QueueTime

\* The namespaces of the model in the order groupby('Namespace') lists its
\* keys: sorted.
NamespaceOrder == <<"a", "b", "kube-system", "null">>

\* One row of all_data.groupby('Namespace').agg(...); the mean is kept as
\* the sum and the count.
NamespaceStats(df, namespace) ==
    LET rows == SelectSeq(df, LAMBDA row : row.Namespace = namespace)
    IN [Namespace |-> namespace,
        PodCount |-> Cardinality({rows[k].Pod : k \in 1..Len(rows)}),
        SumQueueTime |-> SumQueueTime(rows), Count |-> Len(rows),
        MaxQueueTime |-> MaxQueueTime(rows), MinQueueTime |-> MinQueueTime(rows)]

\* groupby('Namespace').agg(...).reset_index(): one row per namespace of
\* df, in key order.
GroupByNamespace(df) ==
    LET keys == SelectSeq(NamespaceOrder, LAMBDA namespace :
                    \E k \in 1..Len(df) : df[k].Namespace = namespace)
    IN [k \in 1..Len(keys) |-> NamespaceStats(df, keys[k])]

\* x's AvgQueueTime is less than y's.
AvgLess(x, y) == x.SumQueueTime * y.Count < y.SumQueueTime * x.Count

\* The rows of idx that can come next in a descending order: those no other
\* row of idx exceeds.  Of rows that are equal in every column one stands
\* for all.
Heads(rows, idx, maximal) ==
    {i \in maximal : \A j \in maximal : rows[j] = rows[i] => i <= j}

\* sort_values('AvgQueueTime', ascending=False): the default kind is
\* quicksort, which is not stable, so rows of equal mean come out in any
\* order.
RECURSIVE ByAvgDescending(_, _)
ByAvgDescending(rows, idx) ==
    IF idx = {} THEN {<<>>}
    ELSE LET maximal == {i \in idx : \A j \in idx : ~AvgLess(rows[i], rows[j])}
         IN UNION {{<<rows[i]>> \o rest : rest \in ByAvgDescending(rows, idx \ {i})} :
                      i \in Heads(rows, idx, maximal)}

\* sort_values('QueueTime', ascending=False), likewise.
RECURSIVE ByQueueTimeDescending(_, _)
ByQueueTimeDescending(rows, idx) ==
    IF idx = {} THEN {<<>>}
    ELSE LET maximal == {i \in idx : \A j \in idx : rows[i].QueueTime >= rows[j].QueueTime}
         IN UNION {{<<rows[i]>> \o rest : rest \in ByQueueTimeDescending(rows, idx \ {i})} :
                      i \in Heads(rows, idx, maximal)}

\* drop_duplicates(['Namespace', 'Pod']): the first row of each pair is kept.
DropDuplicateWorkloads(rows) ==
    LET keep == {k \in 1..Len(rows) :
                    \A j \in 1..(k - 1) :
                        \/ rows[j].Namespace # rows[k].Namespace
                        \/ rows[j].Pod # rows[k].Pod}
        F[k \in 0..Len(rows)] ==
            IF k = 0 THEN <<>>
            ELSE IF k \in keep THEN Append(F[k - 1], rows[k]) ELSE F[k - 1]
    IN F[Len(rows)]

\* DataFrame.head(n)
HeadRows(rows, n) == SubSeq(rows, 1, IF Len(rows) < n THEN Len(rows) ELSE n)

TopCount == 10

\* total_pods = len(self.all_data['Pod'].unique())
TotalPods(df) == Cardinality({df[k].Pod : k \in 1..Len(df)})

\* A variant of the top list that takes the first rows of all_data.
TopPodsUnsorted(df) == {HeadRows(DropDuplicateWorkloads(df), TopCount)}

\* The top_pods generate_statistics can arrive at.
TopPods(df) ==
    {HeadRows(DropDuplicateWorkloads(sorted), TopCount) :
        sorted \in ByQueueTimeDescending(df, 1..Len(df))}

\* The ns_stats generate_statistics can arrive at.
NsStats(df) ==
    LET grouped == GroupByNamespace(df)
    IN ByAvgDescending(grouped, 1..Len(grouped))

\* The reports generate_statistics can arrive at for a non-empty all_data.
GenerateStatistics(df) ==
    {[written |-> TRUE, total_pods |-> TotalPods(df),
      total_namespaces |-> Cardinality({df[k].Namespace : k \in 1..Len(df)}),
      ns_stats |-> ns_stats, top_pods |-> top_pods] :
        ns_stats \in NsStats(df), top_pods \in TopPods(df)}

\* A variant that rounds the quotient up.
IterationsRoundedUp(duration_mins, interval_secs) ==
    -((-(duration_mins * 60)) \div interval_secs)

\* iterations = int(self.duration_mins * 60 / self.interval_secs)
Iterations(duration_mins, interval_secs) ==
    PyIntDiv(duration_mins * 60, interval_secs)

\* run_collection, line 177: the division raises ZeroDivisionError for an
\* interval of 0; range(1, iterations + 1) is empty for iterations <= 0.
RunCollectionBegin(col) ==
    IF col.interval_secs = 0
    THEN [col EXCEPT !.pc = "raised", !.exception = "ZeroDivisionError"]
    ELSE LET n == Iterations(col.duration_mins, col.interval_secs)
         IN [col EXCEPT !.iterations = n,
                        !.i = IF n >= 1 THEN 1 ELSE 0,
                        !.pc = IF n >= 1 THEN "collect" ELSE "generate_statistics"]

\* Whether run_collection goes on to the sleep after cycle i.
SleepsAfter(i, iterations) == i < iterations

\* run_collection, one pass of the loop body up to the test before the sleep.
RunCollectionCycle(col, kubectl, now) ==
    LET got == collect_queue_times(kubectl, col.exclude_namespaces, now)
        head == Append(col.logs, Msg("collecting", col.i, col.iterations)) \o got.logs
        body == IF got.df # <<>>
                THEN head \o CycleStats(got.df)
                ELSE Append(head, Msg("no_data", 0, 0))
    IN [col EXCEPT
          !.all_data = IF got.df # <<>> THEN col.all_data \o got.df ELSE col.all_data,
          !.cycles = col.cycles + 1,
          !.slept_last = FALSE,
          !.df = got.df,
          !.pods_data = kubectl,
          !.prev_pods_data = col.pods_data,
          !.logs = IF SleepsAfter(col.i, col.iterations)
                   THEN Append(body, Msg("waiting", col.interval_secs, 0))
                   ELSE body,
          !.pc = IF SleepsAfter(col.i, col.iterations)
                 THEN "sleep" ELSE "generate_statistics"]

\* time.sleep(self.interval_secs): raises ValueError for a negative length.
RunCollectionSleep(col) ==
    IF col.interval_secs < 0
    THEN [col EXCEPT !.pc = "raised", !.exception = "ValueError"]
    ELSE [col EXCEPT !.sleeps = col.sleeps + 1, !.slept_last = TRUE,
                     !.i = col.i + 1, !.pc = "collect"]


\* generate_statistics and the rest of run() in the web application: nothing
\* is written for an empty all_data; otherwise the report files are written,
\* which raises when the output directory cannot be written.
RunFinish(col, writable, report) ==
    IF col.all_data = <<>>
    THEN [col EXCEPT !.logs = col.logs \o <<Msg("no_data_collected", 0, 0),
                                            Msg("complete", 0, 0)>>,
                     !.excel_path = FALSE, !.pc = "returned"]
    ELSE IF ~writable
    THEN [col EXCEPT !.pc = "raised", !.exception = "OSError"]
    ELSE [col EXCEPT !.logs = col.logs \o <<Msg("statistics", Len(col.all_data), 0),
                                            Msg("complete", 0, 0)>>,
                     !.report = report,
                     !.excel_path = TRUE, !.pc = "returned"]

clusterVars == <<clock, pods, kubectl_mode>>
otherVars == <<monitor, csv_file, logs_pc, raw_data, dedup_data, logs_ns_stats>>

\* run_collection up to the loop.
run_collection(c) ==
    /\ collectors[c].pc = "run_collection"
    /\ collectors' = [collectors EXCEPT ![c] = RunCollectionBegin(@)]
    /\ UNCHANGED <<webVars, clusterVars, otherVars>>

\* One sampling cycle of run_collection.
collection_cycle(c) ==
    /\ collectors[c].pc = "collect"
    /\ collectors' = [collectors EXCEPT
                         ![c] = RunCollectionCycle(@, KubectlResult, clock)]
    /\ UNCHANGED <<webVars, clusterVars, otherVars>>

\* The sleep between two cycles.
collection_sleep(c) ==
    /\ collectors[c].pc = "sleep"
    /\ collectors' = [collectors EXCEPT ![c] = RunCollectionSleep(@)]
    /\ UNCHANGED <<webVars, clusterVars, otherVars>>

\* run(): generate_statistics, the closing log line and the return.
run_finish(c) ==
    /\ collectors[c].pc = "generate_statistics"
    /\ \E writable \in BOOLEAN :
         \/ /\ collectors[c].all_data = <<>> \/ ~writable
            /\ collectors' = [collectors EXCEPT ![c] = RunFinish(@, writable, NoReport)]
         \/ /\ collectors[c].all_data # <<>> /\ writable
            /\ \E report \in GenerateStatistics(collectors[c].all_data) :
                  collectors' = [collectors EXCEPT ![c] = RunFinish(@, writable, report)]
    /\ UNCHANGED <<webVars, clusterVars, otherVars>>

(***************************************************************************)
(* The web application: start_collection and collection_thread.            *)
(***************************************************************************)
\* The arguments of a start request: <<duration, interval>>, and the
\* excluded namespaces.
WebConfigs == {<<1, 30>>, <<1, 0>>, <<0, 60>>, <<-2, -60>>}
WebExcluded == {{}}

NoRun == [status |-> "none", logs |-> None, error |-> "none",
          ended |-> FALSE, duration |-> 0, interval |-> 0]

IdleReq == [pc |-> "idle", duration |-> 0, interval |-> 0,
            excluded |-> {}, result |-> "none"]

\* start_collection, lines 436-437: the test of the active flag.
RejectsStart(isActive) == isActive

\* A variant in which the rejected call clears the run it found.
RejectedClearsRun(status) == [status EXCEPT !.current_run = None]

\* What a rejected call does to collection_status: nothing.
Rejected(status) == status

start_check(r) ==
    /\ req[r].pc = "idle"
    /\ \E cfg \in WebConfigs, ex \in WebExcluded :
       LET d == cfg[1]
           iv == cfg[2]
       IN
         IF RejectsStart(active)
         THEN /\ req' = [req EXCEPT ![r] = [@ EXCEPT !.pc = "returned",
                            !.duration = d, !.interval = iv, !.excluded = ex,
                            !.result = "already_in_progress"]]
              /\ LET st == Rejected([active |-> active, current_run |-> current_run,
                                     recent_runs |-> recent_runs])
                 IN /\ active' = st.active
                    /\ current_run' = st.current_run
                    /\ recent_runs' = st.recent_runs
         ELSE /\ req' = [req EXCEPT ![r] = [@ EXCEPT !.pc = "construct",
                            !.duration = d, !.interval = iv, !.excluded = ex]]
              /\ UNCHANGED <<active, current_run, recent_runs>>
    /\ UNCHANGED <<runs, thread, collectors, clusterVars, otherVars>>

\* start_collection, lines 440-454: the collector is constructed.
start_construct(r) ==
    /\ req[r].pc = "construct"
    /\ collectors' = [collectors EXCEPT
          ![r] = NewCollector(req[r].duration, req[r].interval, req[r].excluded)]
    /\ req' = [req EXCEPT ![r].pc = "set_active"]
    /\ UNCHANGED <<active, current_run, recent_runs, runs, thread,
                   clusterVars, otherVars>>

\* start_collection, line 457.
start_set_active(r) ==
    /\ req[r].pc = "set_active"
    /\ active' = TRUE
    /\ req' = [req EXCEPT ![r].pc = "set_current_run"]
    /\ UNCHANGED <<current_run, recent_runs, runs, thread, collectors,
                   clusterVars, otherVars>>

\* start_collection, lines 458-466: a new run dictionary, whose 'logs' is
\* the collector's own list.
start_set_current_run(r) ==
    /\ req[r].pc = "set_current_run"
    /\ runs' = [runs EXCEPT ![r] = [NoRun EXCEPT !.status = "running", !.logs = r,
                   !.duration = req[r].duration, !.interval = req[r].interval]]
    /\ current_run' = r
    /\ req' = [req EXCEPT ![r].pc = "start_thread"]
    /\ UNCHANGED <<active, recent_runs, thread, collectors, clusterVars, otherVars>>

\* start_collection, lines 503-511: the thread is started and the call
\* returns success.
start_thread(r) ==
    /\ req[r].pc = "start_thread"
    /\ thread' = [thread EXCEPT ![r] = [pc |-> "run", error |-> "none"]]
    /\ collectors' = [collectors EXCEPT ![r].pc = "run_collection"]
    /\ req' = [req EXCEPT ![r] = [@ EXCEPT !.pc = "returned", !.result = "success"]]
    /\ UNCHANGED <<active, current_run, recent_runs, runs, clusterVars, otherVars>>


\* A variant that never shortens the list.
InsertRecentUnbounded(recent, run) == <<run>> \o recent

NoThread == [pc |-> "none", error |-> "none"]

\* recent_runs after insert(0, run) and the truncation to max_recent_runs.
InsertRecent(recent, run) ==
    LET longer == <<run>> \o recent
    IN IF Len(longer) > max_recent_runs
       THEN SubSeq(longer, 1, max_recent_runs)
       ELSE longer

\* collection_thread, line 475: collector.run() has returned.
thread_clear_active(r) ==
    /\ thread[r].pc = "run"
    /\ collectors[r].pc = "returned"
    /\ active' = FALSE
    /\ thread' = [thread EXCEPT ![r].pc = "update"]
    /\ UNCHANGED <<current_run, recent_runs, runs, req, collectors,
                   clusterVars, otherVars>>

\* collection_thread, lines 478-484: update() of whatever dictionary
\* current_run holds now; on None the attribute access raises.
thread_update(r) ==
    /\ thread[r].pc = "update"
    /\ IF current_run = None
       THEN /\ thread' = [thread EXCEPT ![r] = [pc |-> "except",
                                                error |-> "AttributeError"]]
            /\ UNCHANGED runs
       ELSE /\ runs' = [runs EXCEPT ![current_run] =
                           [@ EXCEPT !.status = "completed", !.logs = r,
                                     !.ended = TRUE]]
            /\ thread' = [thread EXCEPT ![r].pc = "check_run"]
    /\ UNCHANGED <<active, current_run, recent_runs, req, collectors,
                   clusterVars, otherVars>>

\* collection_thread, line 487.
thread_check_run(r) ==
    /\ thread[r].pc = "check_run"
    /\ thread' = [thread EXCEPT ![r].pc =
                     IF current_run # None THEN "insert" ELSE "clear_run"]
    /\ UNCHANGED <<active, current_run, recent_runs, runs, req, collectors,
                   clusterVars, otherVars>>

\* collection_thread, lines 488-491.
thread_insert(r) ==
    /\ thread[r].pc = "insert"
    /\ recent_runs' = InsertRecent(recent_runs, current_run)
    /\ thread' = [thread EXCEPT ![r].pc = "clear_run"]
    /\ UNCHANGED <<active, current_run, runs, req, collectors,
                   clusterVars, otherVars>>

\* collection_thread, line 493.
thread_clear_run(r) ==
    /\ thread[r].pc = "clear_run"
    /\ current_run' = None
    /\ thread' = [thread EXCEPT ![r].pc = "done"]
    /\ UNCHANGED <<active, recent_runs, runs, req, collectors,
                   clusterVars, otherVars>>

\* A variant of the except branch that leaves the flag as it is.
thread_except_keeps_active(r) ==
    /\ \/ thread[r].pc = "run" /\ collectors[r].pc = "raised"
       \/ thread[r].pc = "except"
    /\ thread' = [thread EXCEPT ![r] = [pc |-> "mark_failed",
                     error |-> IF thread[r].pc = "run"
                               THEN collectors[r].exception ELSE thread[r].error]]
    /\ UNCHANGED <<active, current_run, recent_runs, runs, req, collectors,
                   clusterVars, otherVars>>

\* collection_thread, lines 495-497: collector.run() has raised, or the
\* update of line 478 has.
thread_except(r) ==
    /\ \/ thread[r].pc = "run" /\ collectors[r].pc = "raised"
       \/ thread[r].pc = "except"
    /\ active' = FALSE
    /\ thread' = [thread EXCEPT ![r] = [pc |-> "mark_failed",
                     error |-> IF thread[r].pc = "run"
                               THEN collectors[r].exception ELSE thread[r].error]]
    /\ UNCHANGED <<current_run, recent_runs, runs, req, collectors,
                   clusterVars, otherVars>>

\* collection_thread, lines 498-500.
thread_mark_failed(r) ==
    /\ thread[r].pc = "mark_failed"
    /\ runs' = IF current_run # None
               THEN [runs EXCEPT ![current_run] =
                        [@ EXCEPT !.status = "failed", !.error = thread[r].error]]
               ELSE runs
    /\ thread' = [thread EXCEPT ![r].pc = "done"]
    /\ UNCHANGED <<active, current_run, recent_runs, req, collectors,
                   clusterVars, otherVars>>

\* The cluster the web application samples: empty, or two started pods, one
\* of them in kube-system.
WebClusters ==
    {[u \in PodUids |->
        IF u = 1 THEN PresentPod(Pod("kube-system", "dns", 1, Time(0), Time(5)))
        ELSE PresentPod(Pod("a", "job", 2, Time(0), Time(5)))]}


(***************************************************************************)
(* The command line collector: queue_stats_collector.py.  Its collector is *)
(* the class of the web application with print in place of self.log; the   *)
(* lines it prints are kept in logs.                                       *)
(***************************************************************************)
\* <<duration, interval>> as given on the command line.
CliConfigs ==
    {<<5, 60>>, <<5, 90>>, <<5, 600>>, <<3, 45>>, <<2, 25>>, <<2, 60>>, <<1, 25>>,
     <<1, 60>>, <<1, 61>>, <<1, 90>>, <<1, 0>>, <<0, 60>>, <<1, -60>>,
     <<-1, 60>>, <<-2, -60>>, <<0, 0>>}

\* The clusters the command line collector samples: empty; a started pod
\* and a kube-system pod; a started pod followed by one whose startTime
\* cannot be parsed; a queued pod and a pod queued for more than 30 days.
CliClusters ==
    {[u \in PodUids |-> AbsentPod],
     [u \in PodUids |->
        IF u = 1 THEN PresentPod(Pod("kube-system", "dns", 1, Time(0), Time(5)))
        ELSE PresentPod(Pod("a", "job", 2, Time(0), Time(5)))],
     [u \in PodUids |->
        IF u = 1 THEN PresentPod(Pod("a", "job", 1, Time(0), Time(7)))
        ELSE PresentPod(Pod("b", "job", 2, Time(0), BadTime))],
     [u \in PodUids |->
        IF u = 1 THEN PresentPod(Pod("a", "job", 1, Time(0), NoTime))
        ELSE PresentPod(Pod("b", "old", 2, Time(0), Time(ThirtyDays + 1)))]}

\* generate_statistics of the command line collector: returns at once for
\* an empty all_data, and writes the csv and xlsx files otherwise.
CliGenerateStatistics(col, writable, report) ==
    IF col.all_data = <<>>
    THEN [col EXCEPT !.logs = Append(col.logs, Msg("no_data_collected", 0, 0)),
                     !.pc = "summary"]
    ELSE IF ~writable
    THEN [col EXCEPT !.pc = "raised", !.exception = "OSError"]
    ELSE [col EXCEPT !.logs = Append(col.logs, Msg("statistics", Len(col.all_data), 0)),
                     !.report = report,
                     !.pc = "summary"]

\* generate_summary_report and the end of run(): the mean of an empty
\* all_data is NaN, and int(NaN) in format_time_components raises.
CliGenerateSummaryReport(col, writable) ==
    IF ~writable
    THEN [col EXCEPT !.pc = "raised", !.exception = "OSError"]
    ELSE IF col.all_data = <<>>
    THEN [col EXCEPT !.pc = "raised", !.exception = "ValueError"]
    ELSE [col EXCEPT !.logs = col.logs \o <<Msg("summary", Len(col.all_data), 0),
                                            Msg("complete", 0, 0)>>,
                     !.excel_path = TRUE, !.pc = "returned"]

cli_generate_statistics(c) ==
    /\ collectors[c].pc = "generate_statistics"
    /\ \E writable \in BOOLEAN :
         \/ /\ collectors[c].all_data = <<>> \/ ~writable
            /\ collectors' = [collectors EXCEPT
                                 ![c] = CliGenerateStatistics(@, writable, NoReport)]
         \/ /\ collectors[c].all_data # <<>> /\ writable
            /\ \E report \in GenerateStatistics(collectors[c].all_data) :
                  collectors' = [collectors EXCEPT
                                    ![c] = CliGenerateStatistics(@, writable, report)]
    /\ UNCHANGED <<webVars, clusterVars, otherVars>>

cli_generate_summary_report(c) ==
    /\ collectors[c].pc = "summary"
    /\ \E writable \in BOOLEAN :
         collectors' = [collectors EXCEPT ![c] = CliGenerateSummaryReport(@, writable)]
    /\ UNCHANGED <<webVars, clusterVars, otherVars>>

\* The data source becomes reachable or unreachable between two calls.
source_change ==
    /\ \E m \in KubectlModes \ {kubectl_mode} : kubectl_mode' = m
    /\ UNCHANGED <<webVars, collectors, clock, pods, otherVars>>


(***************************************************************************)
(* The persistent monitor: QueueTimeCollector of queue_time_collector.py.  *)
(***************************************************************************)
SevenDays == 7 * 24 * 60 * 60
MaxMonitorRuns == 2

\* DataFrame.to_csv(path, index=False): one line per row, every column
\* written as text.
ToCsv(rows) == [exists |-> TRUE, rows |-> rows]

\* The names a pod or a namespace can have that pd.read_csv takes, with its
\* default na_values, for a missing value.
NaStrings == {"null", "nan"}
NaN == "NaN"

\* pd.read_csv(path): every line read back as a row; a Namespace or Pod
\* cell spelled like a missing value is read as NaN.
ReadCsv(file) ==
    [k \in 1..Len(file.rows) |->
        [file.rows[k] EXCEPT
            !.Namespace = IF @ \in NaStrings THEN NaN ELSE @,
            !.Pod = IF @ \in NaStrings THEN NaN ELSE @]]

NoMonitor ==
    [pc |-> "off", exclude_namespaces |-> {}, historical_data |-> <<>>,
     new_data |-> <<>>, pods_data |-> KubectlOk(<<>>),
     prev_pods_data |-> KubectlOk(<<>>), error |-> FALSE, runs |-> 0,
     historical_before |-> <<>>, now |-> 0, formatted |-> <<>>,
     file_before |-> [exists |-> FALSE, rows |-> <<>>]]

\* QueueTimeCollector.__init__, as __main__ calls it: no exclude_namespaces
\* argument, the history file loaded when it exists.
QTC_init(mon, file) ==
    [mon EXCEPT !.pc = "constructed",
                !.exclude_namespaces = DefaultExcluded,
                !.historical_data = IF file.exists THEN ReadCsv(file) ELSE <<>>]

\* A variant that also evicts a row exactly at the cutoff.
InWindowStrict(row, now) == row.Timestamp > now - SevenDays

\* The rows update_persistent_storage keeps.
InWindow(row, now) == row.Timestamp >= now - SevenDays

\* A variant that leaves out the new rows of a PodUID the store holds.
UpdateHistoryDedup(historical_data, new_data, now) ==
    IF new_data # <<>>
    THEN SelectSeq(historical_data
                   \o SelectSeq(new_data, LAMBDA row :
                        \A k \in 1..Len(historical_data) :
                            historical_data[k].PodUID # row.PodUID),
                   LAMBDA row : InWindow(row, now))
    ELSE historical_data

\* A variant that evicts also when the cycle gave no rows.
UpdateHistoryAlways(historical_data, new_data, now) ==
    SelectSeq(historical_data \o new_data, LAMBDA row : InWindow(row, now))

\* update_persistent_storage, lines 108-118: the in-memory history.
UpdateHistory(historical_data, new_data, now) ==
    IF new_data # <<>>
    THEN SelectSeq(historical_data \o new_data, LAMBDA row : InWindow(row, now))
    ELSE historical_data

\* QueueTimeCollector.run_collection: one cycle, and the process ends.  The
\* write of the history file raises when the directory cannot be written.
QTC_run_collection(mon, kubectl, now, writable) ==
    LET got == QTC_collect_queue_times(kubectl, mon.exclude_namespaces, now)
        updated == UpdateHistory(mon.historical_data, got.df, now)
    IN [mon EXCEPT !.new_data = got.df,
                   !.pods_data = kubectl,
                   !.prev_pods_data = mon.pods_data,
                   !.error = got.error,
                   !.historical_data = updated,
                   !.historical_before = mon.historical_data,
                   !.now = now,
                   !.runs = mon.runs + 1,
                   !.pc = IF got.df # <<>> /\ ~writable THEN "crashed" ELSE "done"]

monitor_init ==
    /\ monitor.pc \in {"none", "done", "crashed"}
    /\ monitor.runs < MaxMonitorRuns
    /\ monitor' = QTC_init(monitor, csv_file)
    /\ UNCHANGED <<webVars, collectors, clusterVars, csv_file, logsVars>>

monitor_run_collection ==
    /\ monitor.pc = "constructed"
    /\ \E writable \in BOOLEAN :
         /\ monitor' = QTC_run_collection(monitor, KubectlResult, clock, writable)
         /\ csv_file' = IF monitor'.new_data # <<>> /\ writable
                        THEN ToCsv(monitor'.historical_data)
                        ELSE csv_file
    /\ UNCHANGED <<webVars, collectors, clusterVars, logsVars>>

(***************************************************************************)
(* The sampling cycles of both collectors over a changing cluster.         *)
(***************************************************************************)
MaxTicks == 2

TickSeconds == 4 * 24 * 60 * 60

PodName(u) == IF u = 1 THEN "p1" ELSE "p2"

\* What the cluster can report for each pod: pod 1 in either namespace, with
\* a queue time that is negative, zero, positive, exactly 30 days or more,
\* or with a startTime that cannot be parsed; pod 2 in namespace "a", with
\* a queue time of 5 seconds or of more than 30 days.
PodNamespaces(u) == IF u = 1 THEN {"kube-system", "a"} ELSE {"a"}
PodCreations(u) == IF u = 1 THEN {Time(0), Time(5)} ELSE {Time(0)}
PodStarts(u) ==
    IF u = 1
    THEN {Time(0), Time(5), Time(ThirtyDays), Time(ThirtyDays + 1),
          Time(ThirtyDays + 5), BadTime}
    ELSE {Time(5), Time(ThirtyDays + 1)}

\* A pod is created: it is queued, with no startTime.
pod_create(u) ==
    /\ ~pods[u].present
    /\ \E ns \in PodNamespaces(u), created \in PodCreations(u) :
         pods' = [pods EXCEPT ![u] =
                     PresentPod(Pod(ns, PodName(u), u, created, NoTime))]
    /\ UNCHANGED <<webVars, collectors, clock, kubectl_mode, otherVars>>

\* A queued pod starts.
pod_start(u) ==
    /\ pods[u].present
    /\ pods[u].pod.startTime.kind = "none"
    /\ \E started \in PodStarts(u) :
         pods' = [pods EXCEPT ![u].pod.startTime = started]
    /\ UNCHANGED <<webVars, collectors, clock, kubectl_mode, otherVars>>

\* Time passes.
tick ==
    /\ clock < MaxTicks * TickSeconds
    /\ clock' = clock + TickSeconds
    /\ UNCHANGED <<webVars, collectors, pods, kubectl_mode, otherVars>>

\* The exclusion lists given to the QueueTimeStatsCollector; the empty one
\* stands for no argument.
SamplerExcluded == {{}, {"a"}, {"kube-system", "a"}}

InitSampler ==
    /\ active = FALSE
    /\ current_run = None
    /\ recent_runs = <<>>
    /\ runs = [r \in Req |-> NoRun]
    /\ req = [r \in Req |-> IdleReq]
    /\ thread = [r \in Req |-> NoThread]
    /\ \/ /\ \E ex \in SamplerExcluded :
               collectors = [r \in Req |->
                  IF r = 1 THEN [NewCollector(1, 30, ex) EXCEPT !.pc = "run_collection"]
                  ELSE NoCollector]
          /\ monitor = NoMonitor
       \/ /\ collectors = [r \in Req |-> NoCollector]
          /\ monitor = [NoMonitor EXCEPT !.pc = "none"]
    /\ clock = 0
    /\ pods = [u \in PodUids |-> AbsentPod]
    /\ kubectl_mode = "ok"
    /\ csv_file = [exists |-> FALSE, rows |-> <<>>]
    /\ logs_pc = "off"
    /\ raw_data = <<>>
    /\ dedup_data = <<>>
    /\ logs_ns_stats = <<>>

NextSampler ==
    \/ run_collection(1)
    \/ collection_cycle(1)
    \/ collection_sleep(1)
    \/ monitor_init
    \/ monitor_run_collection
    \/ \E u \in PodUids : pod_create(u) \/ pod_start(u)
    \/ source_change
    \/ tick

SpecSampler == InitSampler /\ [][NextSampler]_vars

(***************************************************************************)
(* The history file of the persistent monitor across restarts.             *)
(***************************************************************************)
MaxStored == 2
MaxStoreTicks == 2

\* The monitor is started eight days after the epoch of the model, so that
\* the cutoff of its first run is the end of day one.
StoreStart == 8 * 24 * 60 * 60

\* The rows a history file written by earlier runs can hold: taken one
\* second before the cutoff of the first run, at the cutoff, one second
\* after it, and a day before the first run.
StoredTimestamps ==
    {StoreStart - SevenDays - 1, StoreStart - SevenDays,
     StoreStart - SevenDays + 1, StoreStart - 24 * 60 * 60}

StoredRows ==
    {HistoryRow(Pod("a", PodName(u), u, Time(0), Time(5)), 5, t) :
        u \in PodUids, t \in StoredTimestamps}

\* The pods the cluster lists while the monitor runs: pod 1, of namespace
\* ns, has started after 5 seconds in the queue, pod 2 is one of kube-system.
StoreCluster(ns) ==
    [u \in PodUids |->
        IF u = 1
        THEN PresentPod(Pod(ns, PodName(1), 1, Time(StoreStart - 10),
                            Time(StoreStart - 5)))
        ELSE PresentPod(Pod("kube-system", PodName(2), 2, Time(0), Time(5)))]

\* A second passes between two runs of the monitor.
store_tick ==
    /\ clock < StoreStart + MaxStoreTicks
    /\ clock' = clock + 1
    /\ UNCHANGED <<webVars, collectors, pods, kubectl_mode, otherVars>>

InitStore ==
    /\ active = FALSE
    /\ current_run = None
    /\ recent_runs = <<>>
    /\ runs = [r \in Req |-> NoRun]
    /\ req = [r \in Req |-> IdleReq]
    /\ thread = [r \in Req |-> NoThread]
    /\ collectors = [r \in Req |-> NoCollector]
    /\ monitor = [NoMonitor EXCEPT !.pc = "none"]
    /\ clock = StoreStart
    /\ pods \in {StoreCluster(ns) : ns \in {"a", "null"}}
    /\ kubectl_mode \in {"ok", "exit_nonzero"}
    /\ csv_file \in {[exists |-> FALSE, rows |-> <<>>]}
                    \cup {ToCsv(rows) : rows \in SeqsUpTo(StoredRows, MaxStored)}
    /\ logs_pc = "off"
    /\ raw_data = <<>>
    /\ dedup_data = <<>>
    /\ logs_ns_stats = <<>>

NextStore ==
    \/ monitor_init
    \/ monitor_run_collection
    \/ source_change
    \/ store_tick

SpecStore == InitStore /\ [][NextStore]_vars

(***************************************************************************)
(* process_logs.py: the report over the history file.                      *)
(***************************************************************************)
MaxRows == 3

IndexOrders(n) ==
    {f \in [1..n -> 1..n] : \A i, j \in 1..n : f[i] = f[j] => i = j}

\* raw_data.sort_values('Timestamp'): the default kind is quicksort, which
\* is not stable, so rows of equal Timestamp come out in any order.
SortOutcomes(rows) ==
    {[k \in 1..Len(rows) |-> rows[f[k]]] : f \in
        {g \in IndexOrders(Len(rows)) :
            \A i, j \in 1..Len(rows) :
                i < j => rows[g[i]].Timestamp <= rows[g[j]].Timestamp}}

\* A variant that keeps the last row of each PodUID.
DropDuplicatesKeepLast(rows) ==
    LET keep == {k \in 1..Len(rows) :
                    \A j \in (k + 1)..Len(rows) : rows[j].PodUID # rows[k].PodUID}
        F[k \in 0..Len(rows)] ==
            IF k = 0 THEN <<>>
            ELSE IF k \in keep THEN Append(F[k - 1], rows[k]) ELSE F[k - 1]
    IN F[Len(rows)]

\* drop_duplicates(subset=['PodUID']): the first row of each PodUID is kept.
DropDuplicates(rows) ==
    LET keep == {k \in 1..Len(rows) :
                    \A j \in 1..(k - 1) : rows[j].PodUID # rows[k].PodUID}
        F[k \in 0..Len(rows)] ==
            IF k = 0 THEN <<>>
            ELSE IF k \in keep THEN Append(F[k - 1], rows[k]) ELSE F[k - 1]
    IN F[Len(rows)]

\* main, lines 33-40: the input file is read; an empty one ends the run.
logs_load ==
    /\ logs_pc = "start"
    /\ raw_data' = ReadCsv(csv_file)
    /\ logs_pc' = IF ReadCsv(csv_file) = <<>> THEN "exit" ELSE "loaded"
    /\ UNCHANGED <<webVars, collectors, clusterVars, monitorVars, dedup_data, logs_ns_stats>>

\* main, lines 45-48.
logs_dedup ==
    /\ logs_pc \in {"loaded", "reloaded"}
    /\ \E sorted \in SortOutcomes(raw_data) : dedup_data' = DropDuplicates(sorted)
    /\ logs_pc' = IF logs_pc = "loaded" THEN "deduped" ELSE "rededuped"
    /\ UNCHANGED <<webVars, collectors, clusterVars, monitorVars, raw_data, logs_ns_stats>>

\* One row of dedup_data.groupby('Namespace').agg({'QueueTime': ['mean',
\* 'max', 'count']}); the mean is kept as the sum and the count.
LogsNamespaceStats(df, namespace) ==
    LET rows == SelectSeq(df, LAMBDA row : row.Namespace = namespace)
    IN [Namespace |-> namespace, SumQueueTime |-> SumQueueTime(rows),
        Count |-> Len(rows), MaxQueueTime |-> MaxQueueTime(rows)]

\* The groups of groupby('Namespace'), in key order; groupby leaves out the
\* rows whose Namespace is NaN.
LogsGroupByNamespace(df) ==
    LET keys == SelectSeq(NamespaceOrder, LAMBDA namespace :
                    /\ namespace # NaN
                    /\ \E k \in 1..Len(df) : df[k].Namespace = namespace)
    IN [k \in 1..Len(keys) |-> LogsNamespaceStats(df, keys[k])]

\* main, lines 50-104: the statistics by namespace, sorted by descending
\* mean and saved.
logs_stats ==
    /\ logs_pc \in {"deduped", "rededuped"}
    /\ LET grouped == LogsGroupByNamespace(dedup_data)
       IN \E ns_stats \in ByAvgDescending(grouped, 1..Len(grouped)) :
             logs_ns_stats' = ns_stats
    /\ logs_pc' = IF logs_pc = "deduped" THEN "reported" ELSE "rereported"
    /\ UNCHANGED <<webVars, collectors, clusterVars, monitorVars, raw_data, dedup_data>>

\* main, lines 106-108 and then lines 15-35 of a second run: the
\* deduplicated rows are saved, and the script is run on the saved file.
logs_rerun ==
    /\ logs_pc = "reported"
    /\ raw_data' = ReadCsv(ToCsv(dedup_data))
    /\ logs_pc' = "reloaded"
    /\ UNCHANGED <<webVars, collectors, clusterVars, monitorVars, dedup_data, logs_ns_stats>>

LogNamespace(uid) == IF uid = 1 THEN "a" ELSE IF uid = 2 THEN "b" ELSE "null"

\* The rows an input file can hold: samples of three pods of one name, each
\* in its own namespace.
LogRows ==
    {[Timestamp |-> t, Namespace |-> LogNamespace(uid), Pod |-> "p",
      PodUID |-> uid, QueueTime |-> q, CreationTime |-> 0, StartTime |-> 0] :
        t \in {1, 2}, uid \in 1..3, q \in {10, 12}}

InitDedup ==
    /\ active = FALSE
    /\ current_run = None
    /\ recent_runs = <<>>
    /\ runs = [r \in Req |-> NoRun]
    /\ req = [r \in Req |-> IdleReq]
    /\ thread = [r \in Req |-> NoThread]
    /\ collectors = [r \in Req |-> NoCollector]
    /\ clock = 0
    /\ pods = [u \in PodUids |-> AbsentPod]
    /\ kubectl_mode = "ok"
    /\ monitor = NoMonitor
    /\ csv_file \in {ToCsv(rows) : rows \in SeqsUpTo(LogRows, MaxRows)}
    /\ logs_pc = "start"
    /\ raw_data = <<>>
    /\ dedup_data = <<>>
    /\ logs_ns_stats = <<>>

NextDedup ==
    \/ logs_load
    \/ logs_dedup
    \/ logs_stats
    \/ logs_rerun

SpecDedup == InitDedup /\ [][NextDedup]_vars

(***************************************************************************)
(* The history file while it is written: run_collection of the monitor     *)
(* statement by statement, and process_logs reading the file meanwhile.    *)
(***************************************************************************)
\* run_collection, lines 127-138: the cycle; without rows nothing more is
\* done.
monitor_collect ==
    /\ monitor.pc = "constructed"
    /\ LET got == QTC_collect_queue_times(KubectlResult, monitor.exclude_namespaces, clock)
       IN monitor' = [monitor EXCEPT
                         !.new_data = got.df,
                         !.pods_data = KubectlResult,
                         !.prev_pods_data = monitor.pods_data,
                         !.error = got.error,
                         !.historical_before = monitor.historical_data,
                         !.file_before = csv_file,
                         !.now = clock,
                         !.runs = monitor.runs + 1,
                         !.pc = IF got.df # <<>> THEN "concat" ELSE "done"]
    /\ UNCHANGED <<webVars, collectors, clusterVars, csv_file, logsVars>>

\* update_persistent_storage, line 110.
monitor_concat ==
    /\ monitor.pc = "concat"
    /\ monitor' = [monitor EXCEPT
                      !.historical_data = monitor.historical_data \o monitor.new_data,
                      !.pc = "filter"]
    /\ UNCHANGED <<webVars, collectors, clusterVars, csv_file, logsVars>>

\* update_persistent_storage, lines 113-118: the cutoff is taken from the
\* clock of this moment.
monitor_filter ==
    /\ monitor.pc = "filter"
    /\ monitor' = [monitor EXCEPT
                      !.historical_data =
                          SelectSeq(monitor.historical_data,
                                    LAMBDA row : InWindow(row, clock)),
                      !.now = clock,
                      !.pc = "open"]
    /\ UNCHANGED <<webVars, collectors, clusterVars, csv_file, logsVars>>

\* update_persistent_storage, line 121: to_csv opens the path for writing,
\* which empties the file, or raises.
monitor_open ==
    /\ monitor.pc = "open"
    /\ \E writable \in BOOLEAN :
         IF writable
         THEN /\ csv_file' = ToCsv(<<>>)
              /\ monitor' = [monitor EXCEPT !.pc = "write"]
         ELSE /\ csv_file' = csv_file
              /\ monitor' = [monitor EXCEPT !.pc = "crashed"]
    /\ UNCHANGED <<webVars, collectors, clusterVars, logsVars>>

\* update_persistent_storage, line 121: to_csv writes through a buffer, so
\* the rows reach the file some at a time; after the last ones the file is
\* closed and the update returns.
monitor_write ==
    /\ monitor.pc = "write"
    /\ \E n \in (Len(csv_file.rows) + 1)..Len(monitor.historical_data) :
         /\ csv_file' = ToCsv(SubSeq(monitor.historical_data, 1, n))
         /\ monitor' = [monitor EXCEPT
                           !.pc = IF n = Len(monitor.historical_data)
                                  THEN "done" ELSE "write"]
    /\ UNCHANGED <<webVars, collectors, clusterVars, logsVars>>

InitReader ==
    /\ active = FALSE
    /\ current_run = None
    /\ recent_runs = <<>>
    /\ runs = [r \in Req |-> NoRun]
    /\ req = [r \in Req |-> IdleReq]
    /\ thread = [r \in Req |-> NoThread]
    /\ collectors = [r \in Req |-> NoCollector]
    /\ monitor = [NoMonitor EXCEPT !.pc = "none"]
    /\ clock = StoreStart
    /\ pods \in {StoreCluster(ns) : ns \in {"a"}}
    /\ kubectl_mode \in {"ok", "exit_nonzero"}
    /\ csv_file \in {[exists |-> FALSE, rows |-> <<>>]}
                    \cup {ToCsv(rows) : rows \in SeqsUpTo(StoredRows, MaxStored)}
    /\ logs_pc = "start"
    /\ raw_data = <<>>
    /\ dedup_data = <<>>
    /\ logs_ns_stats = <<>>

NextReader ==
    \/ monitor_init
    \/ monitor_collect
    \/ monitor_concat
    \/ monitor_filter
    \/ monitor_open
    \/ monitor_write
    \/ store_tick
    \/ logs_load

SpecReader == InitReader /\ [][NextReader]_vars

(***************************************************************************)
(* generate_statistics over a given all_data.                              *)
(***************************************************************************)
MaxStatRows == 3
MaxWorkloads == 11

\* The rows of a small all_data: pods p and q in namespaces a and b, queued
\* for 5 or 7 seconds.
StatRows ==
    {StatsRow(Pod(ns, name, 0, Time(0), Time(q)), q, 0) :
        ns \in {"a", "b"}, name \in {"p", "q"}, q \in {5, 7}}

WorkloadNames ==
    <<"w01", "w02", "w03", "w04", "w05", "w06", "w07", "w08", "w09", "w10",
      "w11", "w12", "w13">>

\* Workload k of a large all_data, queued for q seconds.
WorkloadRow(k, q) ==
    StatsRow(Pod(IF k % 2 = 1 THEN "a" ELSE "b", WorkloadNames[k], 0,
                 Time(0), Time(q)), q, 0)

\* The large frames: n workloads whose queue times rise with the row, fall
\* with it, or rise with the two shortest equal; and the rising one with
\* workload 1 sampled once more, after a restart with a longer queue time.
LargeFrames ==
    UNION {{[k \in 1..n |-> WorkloadRow(k, k)],
            [k \in 1..n |-> WorkloadRow(k, n + 1 - k)],
            [k \in 1..n |-> WorkloadRow(k, IF k = 1 THEN 2 ELSE k)],
            [k \in 1..(n + 1) |->
                IF k <= n THEN WorkloadRow(k, k) ELSE WorkloadRow(1, 100)]} :
           n \in (MaxWorkloads - 2)..MaxWorkloads}

StatsFrames == SeqsUpTo(StatRows, MaxStatRows) \cup LargeFrames

InitStats ==
    /\ active = FALSE
    /\ current_run = None
    /\ recent_runs = <<>>
    /\ runs = [r \in Req |-> NoRun]
    /\ req = [r \in Req |-> IdleReq]
    /\ thread = [r \in Req |-> NoThread]
    /\ \E df \in StatsFrames :
         collectors = [r \in Req |->
            IF r = 1
            THEN [NewCollector(1, 30, {}) EXCEPT !.pc = "generate_statistics",
                                                 !.all_data = df]
            ELSE NoCollector]
    /\ clock = 0
    /\ pods = [u \in PodUids |-> AbsentPod]
    /\ kubectl_mode = "ok"
    /\ monitor = NoMonitor
    /\ csv_file = [exists |-> FALSE, rows |-> <<>>]
    /\ logs_pc = "off"
    /\ raw_data = <<>>
    /\ dedup_data = <<>>
    /\ logs_ns_stats = <<>>

NextStats ==
    \/ run_finish(1)
    \/ cli_generate_statistics(1)
    \/ cli_generate_summary_report(1)

SpecStats == InitStats /\ [][NextStats]_vars

(***************************************************************************)
(* The duration decomposition over one sampled pod.                        *)
(***************************************************************************)
\* The queue times of the pod: around the turns of the minute, the hour and
\* the day, up to the ceiling of 30 days.
FormatSeconds ==
    {d * 86400 + h * 3600 + m * 60 + sec :
        d \in {0, 1, 29}, h \in {0, 1, 23}, m \in {0, 59}, sec \in {0, 1, 59}}
    \cup {ThirtyDays}

\* format_time is called by nothing in queue_time_collector.py; this is a
\* caller of the class that formats the queue time of the first row
\* collected.
monitor_format_time ==
    /\ monitor.pc = "done"
    /\ monitor.new_data # <<>>
    /\ monitor' = [monitor EXCEPT !.formatted = format_time(monitor.new_data[1].QueueTime),
                                  !.pc = "formatted"]
    /\ UNCHANGED <<webVars, collectors, clusterVars, csv_file, logsVars>>

InitFormat ==
    /\ active = FALSE
    /\ current_run = None
    /\ recent_runs = <<>>
    /\ runs = [r \in Req |-> NoRun]
    /\ req = [r \in Req |-> IdleReq]
    /\ thread = [r \in Req |-> NoThread]
    /\ collectors = [r \in Req |->
          IF r = 1 THEN [NewCollector(1, 60, {}) EXCEPT !.pc = "run_collection"]
          ELSE NoCollector]
    /\ clock = 0
    /\ \E s \in FormatSeconds :
         pods = [u \in PodUids |->
                    IF u = 1 THEN PresentPod(Pod("a", PodName(1), 1, Time(0), Time(s)))
                    ELSE AbsentPod]
    /\ kubectl_mode = "ok"
    /\ monitor = [NoMonitor EXCEPT !.pc = "none"]
    /\ csv_file = [exists |-> FALSE, rows |-> <<>>]
    /\ logs_pc = "off"
    /\ raw_data = <<>>
    /\ dedup_data = <<>>
    /\ logs_ns_stats = <<>>

NextFormat ==
    \/ run_collection(1)
    \/ collection_cycle(1)
    \/ run_finish(1)
    \/ monitor_init
    \/ monitor_run_collection
    \/ monitor_format_time

SpecFormat == InitFormat /\ [][NextFormat]_vars

(***************************************************************************)
(* The web application.                                                    *)
(***************************************************************************)
Init ==
    /\ active = FALSE
    /\ current_run = None
    /\ recent_runs = <<>>
    /\ runs = [r \in Req |-> NoRun]
    /\ req = [r \in Req |-> IdleReq]
    /\ thread = [r \in Req |-> NoThread]
    /\ collectors = [r \in Req |-> NoCollector]
    /\ clock = 0
    /\ pods \in WebClusters
    /\ kubectl_mode \in {"ok", "exit_nonzero"}
    /\ monitor = NoMonitor
    /\ csv_file = [exists |-> FALSE, rows |-> <<>>]
    /\ logs_pc = "off"
    /\ raw_data = <<>>
    /\ dedup_data = <<>>
    /\ logs_ns_stats = <<>>

Next ==
    \E r \in Req :
        \/ start_check(r)
        \/ start_construct(r)
        \/ start_set_active(r)
        \/ start_set_current_run(r)
        \/ start_thread(r)
        \/ run_collection(r)
        \/ collection_cycle(r)
        \/ collection_sleep(r)
        \/ run_finish(r)
        \/ thread_clear_active(r)
        \/ thread_update(r)
        \/ thread_check_run(r)
        \/ thread_insert(r)
        \/ thread_clear_run(r)
        \/ thread_except(r)
        \/ thread_mark_failed(r)

Spec == Init /\ [][Next]_vars

(***************************************************************************)
(* The web application after earlier runs, with start requests that arrive *)
(* between runs.                                                           *)
(***************************************************************************)
\* The run dictionaries of the runs that completed before: run k of them
\* has the identity EarlierId(k).
EarlierId(k) == MaxRequests + k

\* How many runs completed before: up to max_recent_runs, so that the runs
\* of the model are the ninth to the twelfth.
EarlierCounts == (max_recent_runs - 2)..max_recent_runs

\* The collector of a run of start_collection(0, 60) after run() returned.
EarlierCollector ==
    RunFinish(RunCollectionBegin([NewCollector(0, 60, {}) EXCEPT !.pc = "run_collection"]),
              TRUE, NoReport)

\* The dictionary of such a run after lines 478-484.
EarlierRun(k) ==
    [NoRun EXCEPT !.status = "completed", !.logs = EarlierId(k), !.ended = TRUE,
                  !.duration = 0, !.interval = 60]

\* recent_runs after n such runs, one after the other: the newest first.
EarlierRecent(n) == [k \in 1..n |-> EarlierId(n + 1 - k)]

\* A start request that arrives while no other call is inside
\* start_collection and no thread is between the end of collector.run()
\* and the end of collection_thread.
start_between_runs(r) ==
    /\ \A o \in Req : /\ req[o].pc \in {"idle", "returned"}
                      /\ thread[o].pc \in {"none", "run", "done"}
    /\ start_check(r)

InitRecent ==
    /\ active = FALSE
    /\ current_run = None
    /\ \E n \in EarlierCounts :
         /\ recent_runs = EarlierRecent(n)
         /\ runs = [r \in Req \cup {EarlierId(k) : k \in 1..n} |->
                       IF r \in Req THEN NoRun ELSE EarlierRun(r - MaxRequests)]
         /\ collectors = [r \in Req \cup {EarlierId(k) : k \in 1..n} |->
                             IF r \in Req THEN NoCollector ELSE EarlierCollector]
    /\ req = [r \in Req |-> IdleReq]
    /\ thread = [r \in Req |-> NoThread]
    /\ clock = 0
    /\ pods \in WebClusters
    /\ kubectl_mode \in {"ok", "exit_nonzero"}
    /\ monitor = NoMonitor
    /\ csv_file = [exists |-> FALSE, rows |-> <<>>]
    /\ logs_pc = "off"
    /\ raw_data = <<>>
    /\ dedup_data = <<>>
    /\ logs_ns_stats = <<>>

NextRecent ==
    \E r \in Req :
        \/ start_between_runs(r)
        \/ start_construct(r)
        \/ start_set_active(r)
        \/ start_set_current_run(r)
        \/ start_thread(r)
        \/ run_collection(r)
        \/ collection_cycle(r)
        \/ collection_sleep(r)
        \/ run_finish(r)
        \/ thread_clear_active(r)
        \/ thread_update(r)
        \/ thread_check_run(r)
        \/ thread_insert(r)
        \/ thread_clear_run(r)
        \/ thread_except(r)
        \/ thread_mark_failed(r)

SpecRecent == InitRecent /\ [][NextRecent]_vars

\* The same runs with start requests that arrive at any time.
SpecRecentAnyTime == InitRecent /\ [][Next]_vars

(***************************************************************************)
(* The web application with start requests that do not overlap each other: *)
(* a call of start_collection begins while no other call is inside it, at  *)
(* any moment of a collection thread.                                      *)
(***************************************************************************)
start_alone(r) ==
    /\ \A o \in Req : req[o].pc \in {"idle", "returned"}
    /\ start_check(r)

NextSerial ==
    \E r \in Req :
        \/ start_alone(r)
        \/ start_construct(r)
        \/ start_set_active(r)
        \/ start_set_current_run(r)
        \/ start_thread(r)
        \/ run_collection(r)
        \/ collection_cycle(r)
        \/ collection_sleep(r)
        \/ run_finish(r)
        \/ thread_clear_active(r)
        \/ thread_update(r)
        \/ thread_check_run(r)
        \/ thread_insert(r)
        \/ thread_clear_run(r)
        \/ thread_except(r)
        \/ thread_mark_failed(r)

SpecSerial == Init /\ [][NextSerial]_vars

(***************************************************************************)
(* The web application with threads that keep running: a call that is      *)
(* inside start_collection goes on to its return, and a collection thread  *)
(* that was started goes on to its end; every sampling cycle, sleep and    *)
(* report generation terminates or raises.  When a start request arrives   *)
(* is left open.                                                           *)
(***************************************************************************)
\* The steps of request r after the test of line 436, and of its thread.
Progress(r) ==
    \/ start_construct(r)
    \/ start_set_active(r)
    \/ start_set_current_run(r)
    \/ start_thread(r)
    \/ run_collection(r)
    \/ collection_cycle(r)
    \/ collection_sleep(r)
    \/ run_finish(r)
    \/ thread_clear_active(r)
    \/ thread_update(r)
    \/ thread_check_run(r)
    \/ thread_insert(r)
    \/ thread_clear_run(r)
    \/ thread_except(r)
    \/ thread_mark_failed(r)

SpecFair == Init /\ [][Next]_vars /\ \A r \in Req : WF_vars(Progress(r))

(***************************************************************************)
(* The command line collector.                                             *)
(***************************************************************************)
InitCli ==
    /\ active = FALSE
    /\ current_run = None
    /\ recent_runs = <<>>
    /\ runs = [r \in Req |-> NoRun]
    /\ req = [r \in Req |-> IdleReq]
    /\ thread = [r \in Req |-> NoThread]
    /\ \E cfg \in CliConfigs :
         collectors = [r \in Req |->
            IF r = 1 THEN [NewCollector(cfg[1], cfg[2], {}) EXCEPT !.pc = "run_collection"]
            ELSE NoCollector]
    /\ clock = 0
    /\ pods \in CliClusters
    /\ kubectl_mode \in KubectlModes
    /\ monitor = NoMonitor
    /\ csv_file = [exists |-> FALSE, rows |-> <<>>]
    /\ logs_pc = "off"
    /\ raw_data = <<>>
    /\ dedup_data = <<>>
    /\ logs_ns_stats = <<>>

NextCli ==
    \/ run_collection(1)
    \/ collection_cycle(1)
    \/ collection_sleep(1)
    \/ cli_generate_statistics(1)
    \/ cli_generate_summary_report(1)
    \/ source_change

SpecCli == InitCli /\ [][NextCli]_vars

(***************************************************************************)
(* Properties.                                                             *)
(***************************************************************************)
ErrorTags == {"error_kubectl", "error_json", "error_unexpected"}

\* C1: only one run is Running at a time: under every interleaving of
\* concurrent start_collection calls, never two collection threads are
\* inside collector.run() at once.
C1_SingleRunningThread ==
    Cardinality({r \in Req : thread[r].pc = "run"}) <= 1

\* C2: a start_collection call made while active is true returns "Collection
\* already in progress" and changes neither collection_status nor the run
\* dictionaries, and creates no collector and no thread.
C2_RejectedStartChangesNothing ==
    [][\A r \in Req :
          (active /\ req[r].pc = "idle" /\ req'[r].pc # "idle")
          => /\ req'[r].pc = "returned"
             /\ req'[r].result = "already_in_progress"
             /\ UNCHANGED <<active, current_run, recent_runs, runs,
                            collectors, thread>>]_vars

C2_Witness ==
    \E r \in Req :
        /\ req[r].result = "already_in_progress"
        /\ active
        /\ current_run # None
        /\ runs[current_run].status = "running"

\* C3: for durationMinutes > 0 and intervalSeconds > 0 run_collection runs
\* exactly floor(durationMinutes*60 / intervalSeconds) cycles, sleeps once
\* between two consecutive cycles and not after the last one.
LoopFinished(col) ==
    col.pc \in {"generate_statistics", "summary", "returned", "raised"}

C3_IterationsAndSleeps ==
    LET col == collectors[1]
        n == (col.duration_mins * 60) \div col.interval_secs
    IN (col.pc # "none" /\ col.duration_mins > 0 /\ col.interval_secs > 0)
       => /\ col.cycles <= n
          /\ col.cycles = 0 => col.sleeps = 0
          /\ col.cycles > 0 => col.sleeps \in {col.cycles - 1, col.cycles}
          /\ LoopFinished(col)
             => /\ col.cycles = n
                /\ col.sleeps = (IF n > 0 THEN n - 1 ELSE 0)
                /\ ~col.slept_last

C3_Witness ==
    LET col == collectors[1]
    IN /\ col.duration_mins = 5
       /\ col.interval_secs = 60
       /\ col.pc = "generate_statistics"
       /\ col.cycles = 5
       /\ col.sleeps = 4

\* C4: with intervalSeconds <= 0 or durationMinutes <= 0 the start request
\* is reported as failed, no sampling cycle runs and the run does not end
\* completed.
C4_BadConfigurationFailsFast ==
    \A r \in Req :
        (req[r].pc \notin {"idle"} /\ (req[r].interval <= 0 \/ req[r].duration <= 0))
        => /\ req[r].result # "success"
           /\ collectors[r].cycles = 0
           /\ runs[r].status # "completed"

\* C5: a cycle whose data-source call fails emits no samples, is logged as
\* an error and does not abort the run: the remaining iterations run and
\* the samples of earlier cycles stay as they were.
SourceFails(col) ==
    \/ kubectl_mode # "ok"
    \/ \E u \in PodUids :
         /\ pods[u].present
         /\ pods[u].pod.namespace \notin col.exclude_namespaces
         /\ pods[u].pod.startTime.kind # "none"
         /\ \/ pods[u].pod.startTime.kind # "time"
            \/ pods[u].pod.creationTimestamp.kind # "time"

C5_FailedCycleStep ==
    LET col == collectors[1]
        after == collectors'[1]
    IN (col.pc = "collect" /\ after.cycles = col.cycles + 1 /\ SourceFails(col))
       => /\ after.all_data = col.all_data
          /\ Len(after.logs) > Len(col.logs)
          /\ SubSeq(after.logs, 1, Len(col.logs)) = col.logs
          /\ \E k \in (Len(col.logs) + 1)..Len(after.logs) :
                after.logs[k].tag \in ErrorTags
          /\ after.i = col.i
          /\ after.pc = (IF col.i < col.iterations THEN "sleep"
                         ELSE "generate_statistics")

C5_AllIterationsRun ==
    LET col == collectors[1]
    IN (LoopFinished(col) /\ col.interval_secs > 0)
       => col.cycles = (IF col.iterations > 0 THEN col.iterations ELSE 0)

C5_FailedCycleDoesNotAbort ==
    [][C5_FailedCycleStep]_vars /\ []C5_AllIterationsRun

C5_Witness ==
    LET col == collectors[1]
    IN /\ col.pc = "generate_statistics"
       /\ col.cycles = col.iterations
       /\ col.cycles >= 3
       /\ \E j, k, l \in 1..Len(col.logs) :
            /\ j < k /\ k < l
            /\ col.logs[j].tag = "collected"
            /\ col.logs[k].tag \in ErrorTags
            /\ col.logs[l].tag = "collected"
       /\ Len(col.all_data) >= 2


(***************************************************************************)
(* The Sampler's output, stated from the cluster listing.                  *)
(***************************************************************************)
QueueTimeOf(pod) == pod.startTime.t - pod.creationTimestamp.t

Started(pod) ==
    pod.startTime.kind = "time" /\ pod.creationTimestamp.kind = "time"

\* The listing fails as a whole: the call fails, or a pod that is looked at
\* has a timestamp that cannot be read.
ListingFails(kubectl, excluded) ==
    \/ kubectl.kind # "ok"
    \/ \E k \in 1..Len(kubectl.items) :
         /\ kubectl.items[k].namespace \notin excluded
         /\ kubectl.items[k].startTime.kind # "none"
         /\ ~Started(kubectl.items[k])

HasRow(df, pod) ==
    \E k \in 1..Len(df) : df[k].Namespace = pod.namespace /\ df[k].Pod = pod.name

Rows(df) == {df[k] : k \in 1..Len(df)}

ItemsOf(kubectl) == {kubectl.items[k] : k \in 1..Len(kubectl.items)}

\* The two samplers, each with its exclusion list, the rows of its latest
\* cycle, everything it has stored, and the listings of its latest cycle
\* and of the one before.
StatsView ==
    [ran |-> collectors[1].cycles > 0,
     twice |-> collectors[1].cycles > 1,
     excluded |-> collectors[1].exclude_namespaces,
     df |-> collectors[1].df,
     stored |-> Rows(collectors[1].all_data),
     pods_data |-> collectors[1].pods_data,
     prev_pods_data |-> collectors[1].prev_pods_data]

MonitorView ==
    [ran |-> monitor.runs > 0,
     twice |-> monitor.runs > 1,
     excluded |-> monitor.exclude_namespaces,
     df |-> monitor.new_data,
     stored |-> Rows(monitor.historical_data) \cup Rows(csv_file.rows),
     pods_data |-> monitor.pods_data,
     prev_pods_data |-> monitor.prev_pods_data]

Views == {StatsView, MonitorView}

\* C6: no sample returned by collect_queue_times, and so no sample stored in
\* all_data or historical_data, has a namespace of the exclusion set.
C6_ExcludedNamespacesNeverSampled ==
    \A v \in Views :
        \A row \in Rows(v.df) \cup v.stored : row.Namespace \notin v.excluded

C6_Witness ==
    LET v == StatsView
    IN /\ v.ran
       /\ v.df # <<>>
       /\ \E pod \in ItemsOf(v.pods_data) :
            /\ pod.namespace \in v.excluded
            /\ Started(pod)
            /\ QueueTimeOf(pod) = 5

C6_WitnessHistory ==
    LET v == MonitorView
    IN /\ v.ran
       /\ v.df # <<>>
       /\ Rows(csv_file.rows) # {}
       /\ \E pod \in ItemsOf(v.pods_data) :
            /\ pod.namespace \in v.excluded
            /\ Started(pod)
            /\ QueueTimeOf(pod) = 5

\* C7: the Sampler never emits a sample with queueTime < 0: a pod whose
\* start time is earlier than its creation time gives no row.
C7_NoNegativeQueueTime ==
    \A v \in Views :
        \A row \in Rows(v.df) \cup v.stored : row.QueueTime >= 0

\* C8: the Sampler never emits a sample with queueTime above 30 days; a pod
\* at exactly 30 days is kept, and dropping a pod does not fail the cycle:
\* every other valid pod of the listing still gives a row.
C8_SanityCeiling ==
    \A v \in Views :
        /\ \A row \in Rows(v.df) \cup v.stored : row.QueueTime <= 2592000
        /\ (v.ran /\ ~ListingFails(v.pods_data, v.excluded))
           => \A pod \in ItemsOf(v.pods_data) :
                (Started(pod) /\ pod.namespace \notin v.excluded)
                => /\ QueueTimeOf(pod) > 2592000 => ~HasRow(v.df, pod)
                   /\ (QueueTimeOf(pod) >= 0 /\ QueueTimeOf(pod) <= 2592000)
                      => HasRow(v.df, pod)

C8_Witness ==
    LET v == StatsView
    IN /\ v.ran
       /\ ~ListingFails(v.pods_data, v.excluded)
       /\ \E dropped, kept \in ItemsOf(v.pods_data) :
            /\ Started(dropped) /\ dropped.namespace \notin v.excluded
            /\ QueueTimeOf(dropped) > 2592000
            /\ ~HasRow(v.df, dropped)
            /\ Started(kept) /\ kept.namespace \notin v.excluded
            /\ QueueTimeOf(kept) = 2592000
            /\ HasRow(v.df, kept)

\* C9: a pod with no start time gives no row in the cycle, and the same pod
\* gives a row in a later cycle once its start time is present.
C9_QueuedPodSkippedUntilStarted ==
    \A v \in Views :
        /\ v.ran => \A pod \in ItemsOf(v.pods_data) :
                       pod.startTime.kind = "none" => ~HasRow(v.df, pod)
        /\ (v.twice /\ ~ListingFails(v.pods_data, v.excluded))
           => \A pod \in ItemsOf(v.pods_data) :
                (/\ \E before \in ItemsOf(v.prev_pods_data) :
                       before.uid = pod.uid /\ before.startTime.kind = "none"
                 /\ Started(pod)
                 /\ pod.namespace \notin v.excluded
                 /\ QueueTimeOf(pod) >= 0
                 /\ QueueTimeOf(pod) <= 2592000)
                => HasRow(v.df, pod)

C9_Witness ==
    LET v == StatsView
    IN /\ v.twice
       /\ \E pod \in ItemsOf(v.pods_data), before \in ItemsOf(v.prev_pods_data) :
            /\ before.uid = pod.uid
            /\ before.startTime.kind = "none"
            /\ pod.namespace \notin v.excluded
            /\ Started(pod)
            /\ HasRow(v.df, pod)
            /\ Len(collectors[1].all_data) = Len(v.df)


(***************************************************************************)
(* Deduplication.                                                          *)
(***************************************************************************)
Uids(rows) == {rows[k].PodUID : k \in 1..Len(rows)}

\* C10: Dedup is idempotent, Dedup(Dedup(S)) = Dedup(S), and its output has
\* at most one sample per uid, so at most as many rows as S has uids.
C10_DedupIdempotent ==
    /\ logs_pc \in {"deduped", "rededuped"}
       => /\ \A i, j \in 1..Len(dedup_data) :
                dedup_data[i].PodUID = dedup_data[j].PodUID => i = j
          /\ Len(dedup_data) <= Cardinality(Uids(raw_data))
    /\ logs_pc = "rededuped" => dedup_data = raw_data

\* What holds of the second deduplication: the same rows, one per uid, in
\* an order that is sorted by Timestamp.
SecondDedupKeepsTheRows ==
    logs_pc = "rededuped"
    => /\ Rows(dedup_data) = Rows(raw_data)
       /\ Len(dedup_data) = Len(raw_data)

\* The first row of raw_data, in input order, among the rows of uid that
\* carry the earliest Timestamp of that uid.
FirstEarliest(rows, uid) ==
    CHOOSE k \in 1..Len(rows) :
        /\ rows[k].PodUID = uid
        /\ \A j \in 1..Len(rows) :
              rows[j].PodUID = uid
              => \/ rows[k].Timestamp < rows[j].Timestamp
                 \/ rows[k].Timestamp = rows[j].Timestamp /\ k <= j

\* C11: for every uid Dedup keeps the sample with the earliest timestamp,
\* and of several samples sharing that timestamp the one that comes first
\* in the input, so the result is a function of the input.
C11_DedupKeepsFirstEarliest ==
    logs_pc = "deduped"
    => \A uid \in Uids(raw_data) :
          \E k \in 1..Len(dedup_data) :
              dedup_data[k] = raw_data[FirstEarliest(raw_data, uid)]

\* What holds of the kept sample: it carries the earliest Timestamp of its
\* uid.
DedupKeepsAnEarliest ==
    logs_pc = "deduped"
    => \A k \in 1..Len(dedup_data) :
          /\ \E j \in 1..Len(raw_data) : raw_data[j] = dedup_data[k]
          /\ \A j \in 1..Len(raw_data) :
                raw_data[j].PodUID = dedup_data[k].PodUID
                => dedup_data[k].Timestamp <= raw_data[j].Timestamp

(***************************************************************************)
(* The history store.                                                      *)
(***************************************************************************)
\* A run of the monitor that called update_persistent_storage with rows and
\* returned from it.
Updated == monitor.pc = "done" /\ monitor.new_data # <<>>

\* C12: eviction at time now with the window of 7 days leaves no sample
\* with timestamp < now - 7 days, removes no sample with timestamp >=
\* now - 7 days (a sample exactly at the cutoff is kept), and leaves the
\* surviving samples as they were.
C12_EvictionKeepsTheWindow ==
    Updated
    => LET before == monitor.historical_before \o monitor.new_data
       IN /\ \A k \in 1..Len(monitor.historical_data) :
                monitor.historical_data[k].Timestamp >= monitor.now - 604800
          /\ monitor.historical_data =
                SelectSeq(before, LAMBDA row : row.Timestamp >= monitor.now - 604800)

\* An update that evicted a sample one second older than the cutoff and
\* kept a sample exactly at the cutoff.
C12_Witness ==
    /\ Updated
    /\ \E k \in 1..Len(monitor.historical_before) :
          monitor.historical_before[k].Timestamp = monitor.now - 604800 - 1
    /\ \E k \in 1..Len(monitor.historical_data) :
          monitor.historical_data[k].Timestamp = monitor.now - 604800

\* C13: immediately after QueueTimeCollector is constructed over an
\* existing history file, historical_data holds no sample older than 7
\* days relative to the time of the load.
C13_LoadKeepsOnlyTheWindow ==
    [][(monitor.pc # "constructed" /\ monitor'.pc = "constructed")
       => \A k \in 1..Len(monitor'.historical_data) :
             monitor'.historical_data[k].Timestamp >= clock' - 604800]_vars

\* What the constructor does: the store is the file as it stands.
LoadKeepsTheFile ==
    monitor.pc = "constructed"
    => monitor.historical_data = (IF csv_file.exists THEN ReadCsv(csv_file) ELSE <<>>)

\* C14: Append adds every sample of the cycle, also of a uid that is
\* stored already, and the full store is persisted before the update
\* returns: after an update with rows that returned normally, the store
\* ends with the rows of the cycle and the file holds exactly the store.
C14_AppendAllAndPersist ==
    Updated
    => LET n == Len(monitor.historical_data)
           m == Len(monitor.new_data)
       IN /\ m <= n
          /\ SubSeq(monitor.historical_data, n - m + 1, n) = monitor.new_data
          /\ csv_file = [exists |-> TRUE, rows |-> monitor.historical_data]

\* An update that stored a uid the store already held, and that wrote the
\* file.
C14_Witness ==
    /\ Updated
    /\ \E i, j \in 1..Len(monitor.historical_data) :
          /\ i <= Len(monitor.historical_data) - Len(monitor.new_data)
          /\ j > Len(monitor.historical_data) - Len(monitor.new_data)
          /\ monitor.historical_data[i].PodUID = monitor.historical_data[j].PodUID
    /\ csv_file.rows = monitor.historical_data
    /\ Len(csv_file.rows) >= 2

(***************************************************************************)
(* Statistics and reports.                                                 *)
(***************************************************************************)
\* C15: aggregating an empty sample collection gives a defined "no data"
\* outcome: in a run whose every cycle produced no samples, no statistics
\* or reporting step of run() raises (a report file that cannot be written
\* is a storage failure and is not meant).
C15_EmptyAggregationDoesNotRaise ==
    [][\A c \in Req :
          (/\ collectors[c].pc \in {"generate_statistics", "summary"}
           /\ collectors[c].all_data = <<>>
           /\ collectors'[c].pc = "raised")
          => collectors'[c].exception = "OSError"]_vars

\* The position of a namespace in ascending key order.
NamespaceRank(namespace) ==
    CHOOSE k \in 1..Len(NamespaceOrder) : NamespaceOrder[k] = namespace

\* rows has exactly one row for each of the namespaces, and is ordered by
\* descending mean with equal means in ascending key order.
ByGroupOrdered(rows, namespaces) ==
    /\ {rows[k].Namespace : k \in 1..Len(rows)} = namespaces
    /\ Len(rows) = Cardinality(namespaces)
    /\ \A i, j \in 1..Len(rows) :
          i < j => \/ rows[i].SumQueueTime * rows[j].Count
                        > rows[j].SumQueueTime * rows[i].Count
                   \/ /\ rows[i].SumQueueTime * rows[j].Count
                            = rows[j].SumQueueTime * rows[i].Count
                      /\ NamespaceRank(rows[i].Namespace)
                            < NamespaceRank(rows[j].Namespace)

\* C16: the statistics by namespace have exactly one row per namespace of
\* the input and are ordered by descending mean queue time, namespaces of
\* equal mean in ascending key order, so that the order is a function of
\* the set of input samples.
C16_ByGroupOrder ==
    \A c \in Req :
        collectors[c].report.written
        => ByGroupOrdered(collectors[c].report.ns_stats,
                          {collectors[c].all_data[k].Namespace :
                              k \in 1..Len(collectors[c].all_data)})

\* The same of the statistics process_logs saves.
LogsByGroupOrder ==
    logs_pc \in {"reported", "rereported"}
    => ByGroupOrdered(logs_ns_stats,
                      {csv_file.rows[k].Namespace : k \in 1..Len(csv_file.rows)})

\* What holds of ns_stats whatever the sort does with equal means: one row
\* per namespace, and no row before one of a larger mean.
ByGroupDescending ==
    \A c \in Req :
        collectors[c].report.written
        => LET rows == collectors[c].report.ns_stats
           IN /\ {rows[k].Namespace : k \in 1..Len(rows)}
                    = {collectors[c].all_data[k].Namespace :
                          k \in 1..Len(collectors[c].all_data)}
              /\ \A i, j \in 1..Len(rows) :
                    /\ rows[i].Namespace = rows[j].Namespace => i = j
                    /\ i < j => rows[i].SumQueueTime * rows[j].Count
                                   >= rows[j].SumQueueTime * rows[i].Count

\* The workloads of a frame, and the largest queue time observed of one.
Workloads(df) == {<<df[k].Namespace, df[k].Pod>> : k \in 1..Len(df)}
LargestQueueTime(df, w) ==
    CHOOSE q \in {df[k].QueueTime : k \in 1..Len(df)} :
        /\ \E k \in 1..Len(df) :
              /\ <<df[k].Namespace, df[k].Pod>> = w
              /\ df[k].QueueTime = q
        /\ \A k \in 1..Len(df) :
              <<df[k].Namespace, df[k].Pod>> = w => df[k].QueueTime <= q

\* C17: the top-10 list has one row per distinct (namespace, pod), is
\* sorted by descending queueTime, has min(10, distinct workloads) rows,
\* each row carries the largest queueTime observed of its workload, and no
\* workload left out has a larger maximum than one that is listed.
C17_TopTen ==
    \A c \in Req :
        collectors[c].report.written
        => LET df == collectors[c].all_data
               top == collectors[c].report.top_pods
               n == Cardinality(Workloads(df))
           IN /\ Len(top) = (IF n < 10 THEN n ELSE 10)
              /\ \A i, j \in 1..Len(top) :
                    /\ (top[i].Namespace = top[j].Namespace /\ top[i].Pod = top[j].Pod)
                       => i = j
                    /\ i < j => top[i].QueueTime >= top[j].QueueTime
              /\ \A i \in 1..Len(top) :
                    /\ \E k \in 1..Len(df) : df[k] = top[i]
                    /\ top[i].QueueTime
                          = LargestQueueTime(df, <<top[i].Namespace, top[i].Pod>>)
              /\ \A w \in Workloads(df) :
                    (\A i \in 1..Len(top) : <<top[i].Namespace, top[i].Pod>> # w)
                    => \A i \in 1..Len(top) :
                          LargestQueueTime(df, w) <= top[i].QueueTime

\* A report over eleven workloads, one of them sampled twice with different
\* queue times: the list has ten rows and leaves a workload out.
C17_Witness ==
    /\ collectors[1].report.written
    /\ Cardinality(Workloads(collectors[1].all_data)) = 11
    /\ Len(collectors[1].all_data) = 12
    /\ Len(collectors[1].report.top_pods) = 10
    /\ collectors[1].report.top_pods[1].QueueTime = 100

\* A report over fewer than ten workloads lists all of them.
C17_WitnessFew ==
    /\ collectors[1].report.written
    /\ Len(collectors[1].all_data) = 3
    /\ Cardinality(Workloads(collectors[1].all_data)) = 2
    /\ Len(collectors[1].report.top_pods) = 2

\* Days, Hours, Minutes and Seconds decompose s exactly.
Decomposes(days, hours, minutes, seconds, s) ==
    /\ days >= 0
    /\ 0 <= hours /\ hours < 24
    /\ 0 <= minutes /\ minutes < 60
    /\ 0 <= seconds /\ seconds < 60
    /\ days * 86400 + hours * 3600 + minutes * 60 + seconds = s

\* C18: for a whole number of seconds s with 0 <= s <= 30 days the
\* decomposition into Days, Hours, Minutes and Seconds is exact, with Hours
\* below 24 and Minutes and Seconds below 60, in the columns of a sampled
\* row, in its formatted text, and in format_time of the monitor.
C18_DecompositionExact ==
    /\ \A c \in Req : \A k \in 1..Len(collectors[c].all_data) :
          LET row == collectors[c].all_data[k]
          IN (0 <= row.QueueTime /\ row.QueueTime <= 2592000)
             => /\ Decomposes(row.Days, row.Hours, row.Minutes, row.Seconds,
                              row.QueueTime)
                /\ row.QueueTimeFormatted
                      = <<row.Days, "d", row.Hours, "h", row.Minutes, "m",
                          row.Seconds, "s">>
    /\ monitor.pc = "formatted"
       => LET text == monitor.formatted
          IN Decomposes(text[1], text[3], text[5], text[7],
                        monitor.new_data[1].QueueTime)

\* A pod queued for 29 days, 23 hours, 59 minutes and 59 seconds has been
\* sampled and formatted by both.
C18_Witness ==
    /\ Len(collectors[1].all_data) = 1
    /\ collectors[1].all_data[1].QueueTime = 2591999
    /\ collectors[1].all_data[1].Days = 29
    /\ collectors[1].all_data[1].Seconds = 59
    /\ monitor.pc = "formatted"
    /\ monitor.formatted = <<29, "d", 23, "h", 59, "m", 59, "s">>

\* C19: the unique-workload count a report gives is the number of distinct
\* workloads of its input: a workload seen in several cycles counts once,
\* and two workloads count as two also when they share a pod name across
\* namespaces.
C19_UniqueWorkloadCount ==
    /\ \A c \in Req :
          collectors[c].report.written
          => collectors[c].report.total_pods
                = Cardinality(Workloads(collectors[c].all_data))
    /\ logs_pc \in {"reported", "rereported"}
       => Len(dedup_data) = Cardinality(Uids(raw_data))

\* What holds of the count of the collectors: it is the number of distinct
\* pod names.
TotalPodsCountsNames ==
    \A c \in Req :
        collectors[c].report.written
        => collectors[c].report.total_pods
              = Cardinality({collectors[c].all_data[k].Pod :
                                k \in 1..Len(collectors[c].all_data)})

\* The count of process_logs is the number of distinct uids.
LogsCountsUids ==
    logs_pc \in {"deduped", "reported", "rededuped", "rereported"}
    => Len(dedup_data) = Cardinality(Uids(raw_data))

(***************************************************************************)
(* The status of a run of the web application.                             *)
(***************************************************************************)
\* run_collection has returned: run() is at generate_statistics or past it,
\* or has raised while writing the reports.
LoopCompleted(col) ==
    \/ col.pc \in {"generate_statistics", "summary", "returned"}
    \/ col.pc = "raised" /\ col.exception = "OSError"

\* C20: when the collection loop has finished all its iterations the run
\* becomes completed, whether or not a cycle produced samples: run() of a
\* collector without any sample returns normally, and a run whose run()
\* has returned and whose thread has ended has the status 'completed'.
C20_FinishedLoopCompletes ==
    \A r \in Req :
        /\ (LoopCompleted(collectors[r]) /\ collectors[r].all_data = <<>>)
           => collectors[r].pc # "raised"
        /\ (thread[r].pc = "done" /\ collectors[r].pc = "returned")
           => runs[r].status = "completed"

\* The same of a run that no other start request came across.
SoloRunCompletes ==
    \A r \in Req :
        (\A o \in Req \ {r} : req[o].pc = "idle")
        => /\ (LoopCompleted(collectors[r]) /\ collectors[r].all_data = <<>>)
              => collectors[r].pc # "raised"
           /\ (thread[r].pc = "done" /\ collectors[r].pc = "returned")
              => runs[r].status = "completed"

\* A run in which every cycle failed has ended as completed.
SoloRunWitness ==
    /\ req[2].pc = "idle"
    /\ thread[1].pc = "done"
    /\ collectors[1].cycles = 2
    /\ collectors[1].all_data = <<>>
    /\ kubectl_mode = "exit_nonzero"
    /\ runs[1].status = "completed"

\* A collection thread that has ended in its except branch left its own run
\* 'failed', with the message of the exception in the record.
FailureRecorded(r) ==
    (thread[r].pc = "done" /\ thread[r].error # "none")
    => /\ runs[r].status = "failed"
       /\ runs[r].error = thread[r].error

\* The except branch clears the active flag, and a record that is 'failed'
\* does not become 'completed'.
FailureStep(r) ==
    /\ (thread[r].pc # "mark_failed" /\ thread'[r].pc = "mark_failed") => ~active'
    /\ runs[r].status = "failed" => runs'[r].status # "completed"

\* C21: when an unrecoverable error is raised inside a running collection
\* the run becomes 'failed' with the error message in its record, the active
\* flag is cleared, and the status never afterwards changes to 'completed'.
C21_FailedRunStaysFailed ==
    /\ [](\A r \in Req : FailureRecorded(r))
    /\ [][\A r \in Req : FailureStep(r)]_vars

\* The same of a run that no other start request came across.
SoloFailureStaysFailed ==
    /\ [](\A r \in Req : (\A o \in Req \ {r} : req[o].pc = "idle") => FailureRecorded(r))
    /\ [][\A r \in Req : (\A o \in Req \ {r} : req'[o].pc = "idle") => FailureStep(r)]_vars

\* A run that failed to write its report files has ended as failed.
SoloFailureWitness ==
    /\ req[2].pc = "idle"
    /\ thread[1].pc = "done"
    /\ thread[1].error = "OSError"
    /\ runs[1].status = "failed"
    /\ runs[1].error = "OSError"
    /\ current_run = 1
    /\ ~active

(***************************************************************************)
(* recent_runs.                                                            *)
(***************************************************************************)
\* C22: recent_runs holds at most max_recent_runs (10) entries, the most
\* recently finished first: a run that finishes is put at the head, the
\* entries behind it keep their order, and when the list held 10 entries
\* the last one, the oldest, is the one removed.
C22_RecentRunsBounded ==
    /\ [](Len(recent_runs) <= 10)
    /\ [][recent_runs' # recent_runs
          => \E r \in Req :
                /\ thread[r].pc = "insert" /\ thread'[r].pc # "insert"
                /\ runs[r].status = "completed"
                /\ recent_runs' = <<r>> \o (IF Len(recent_runs) = 10
                                            THEN SubSeq(recent_runs, 1, 9)
                                            ELSE recent_runs)]_vars

\* The eleventh run has finished: it is at the head, the list holds 10
\* entries, and the first of the earlier runs is gone.
C22_Witness ==
    /\ Len(recent_runs) = 10
    /\ recent_runs[1] \in Req
    /\ runs[recent_runs[1]].status = "completed"
    /\ \A k \in 2..10 : recent_runs[k] = EarlierId(12 - k)
    /\ \A k \in 1..10 : recent_runs[k] # EarlierId(1)

\* What holds of the list whenever the start requests arrive: it is
\* bounded, and an insertion puts one entry at the head and removes the
\* last of 10.  The entry is whatever current_run holds at line 488, which
\* can be the dictionary of another run, or None.
RecentRunsBoundedAnyTime ==
    /\ [](Len(recent_runs) <= 10)
    /\ [][recent_runs' # recent_runs
          => \E x \in DOMAIN runs \cup {None} :
                recent_runs' = <<x>> \o (IF Len(recent_runs) = 10
                                         THEN SubSeq(recent_runs, 1, 9)
                                         ELSE recent_runs)]_vars

(***************************************************************************)
(* Readers of the store.                                                   *)
(***************************************************************************)
\* update_persistent_storage is between its first and its last statement.
Updating == monitor.pc \in {"concat", "filter", "open", "write"}

\* The store after the update that is under way, once the cutoff is taken.
StoreAfter ==
    IF monitor.pc \in {"open", "write"}
    THEN monitor.historical_data
    ELSE UpdateHistory(monitor.historical_before, monitor.new_data, clock)

\* C23: a reader of the store that runs while an append is under way sees
\* the contents before the append or the contents after the append and
\* the eviction, never a state in between.
C23_ReaderSeesPreOrPost ==
    [][(Updating /\ logs_pc = "start" /\ logs_pc' # "start")
       => \/ raw_data' = ReadCsv(monitor.file_before)
          \/ raw_data' = ReadCsv(ToCsv(StoreAfter))]_vars

\* The statements of update_persistent_storage, taken one by one, end in
\* the store and the file that the update as a whole gives.
StepsGiveTheUpdate ==
    (monitor.pc = "done" /\ monitor.new_data # <<>>)
    => /\ monitor.historical_data
             = UpdateHistory(monitor.historical_before, monitor.new_data, monitor.now)
       /\ csv_file = ToCsv(monitor.historical_data)

(***************************************************************************)
(* A failed data-source call and an empty listing.                         *)
(***************************************************************************)
\* What collect_queue_times returns to the loop when the call worked and
\* listed no pod.
ValidEmptyResult == collect_queue_times(KubectlOk(<<>>), DefaultExcluded, 0).df
ValidEmptyHistory == QTC_collect_queue_times(KubectlOk(<<>>), DefaultExcluded, 0).df

\* The lines of the latest cycle in the log of a collector: from its
\* "collecting" line on.
LastCycleLines(logs) ==
    LET first == CHOOSE k \in 1..Len(logs) :
                    /\ logs[k].tag = "collecting"
                    /\ \A j \in (k + 1)..Len(logs) : logs[j].tag # "collecting"
    IN SubSeq(logs, first + 1, Len(logs))

\* C24: a failed data-source call is distinguishable from a valid empty
\* result: after a cycle whose kubectl call failed, the value the cycle
\* returned to the loop is not the value of a cycle that validly found
\* zero workloads, and neither is what is recorded for the cycle.
C24_FailureDistinguishable ==
    /\ (collectors[1].cycles > 0 /\ collectors[1].pods_data.kind # "ok")
       => /\ collectors[1].df # ValidEmptyResult
          /\ \E k \in 1..Len(LastCycleLines(collectors[1].logs)) :
                LastCycleLines(collectors[1].logs)[k].tag \in ErrorTags
    /\ (monitor.runs > 0 /\ monitor.pods_data.kind # "ok")
       => /\ monitor.new_data # ValidEmptyHistory
          /\ monitor.error

\* What holds: the failure shows in the log only.  The lines recorded for
\* a cycle hold an error line exactly when the listing failed, and the
\* monitor prints its error line exactly then.
FailureShowsInTheLogOnly ==
    /\ collectors[1].cycles > 0
       => /\ ListingFails(collectors[1].pods_data, collectors[1].exclude_namespaces)
             <=> \E k \in 1..Len(LastCycleLines(collectors[1].logs)) :
                    LastCycleLines(collectors[1].logs)[k].tag \in ErrorTags
          /\ ListingFails(collectors[1].pods_data, collectors[1].exclude_namespaces)
             => collectors[1].df = ValidEmptyResult
    /\ monitor.runs > 0
       => /\ ListingFails(monitor.pods_data, monitor.exclude_namespaces) <=> monitor.error
          /\ monitor.error => monitor.new_data = ValidEmptyHistory

\* A cycle that failed and a cycle that validly found nothing have been
\* run.
FailedCycleWitness ==
    /\ collectors[1].cycles > 0
    /\ collectors[1].pods_data.kind = "exit_nonzero"
    /\ collectors[1].df = <<>>

ValidEmptyCycleWitness ==
    /\ collectors[1].cycles > 0
    /\ collectors[1].pods_data = KubectlOk(<<>>)
    /\ collectors[1].df = <<>>

(***************************************************************************)
(* The record of a run that has ended.                                     *)
(***************************************************************************)
\* Run r is in recent_runs, with the log of its own collector.
Retained(r) ==
    /\ \E k \in 1..Len(recent_runs) : recent_runs[k] = r
    /\ runs[r].logs = r

\* C25: every run that reaches a terminal state, completed or failed, is
\* afterwards present in recent_runs with its final status and its full
\* log: once the thread of a run has ended, the run is in the list, its
\* status is 'completed' or 'failed', and its log is the collector's.
C25_TerminalRunRetained ==
    \A r \in Req :
        thread[r].pc = "done"
        => /\ runs[r].status \in {"completed", "failed"}
           /\ Retained(r)

\* What holds of a run whose thread ended without an exception, when the
\* start requests arrive between runs: it is retained as 'completed', and
\* the log kept with it ends with the closing line of run().
CompletedRunRetained ==
    \A r \in Req :
        (thread[r].pc = "done" /\ thread[r].error = "none")
        => /\ runs[r].status = "completed"
           /\ Retained(r)
           /\ collectors[runs[r].logs].logs[Len(collectors[runs[r].logs].logs)].tag
                 = "complete"

\* What holds of a run that failed, likewise: it is 'failed' and in
\* current_run, and not in recent_runs.
FailedRunNotRetained ==
    \A r \in Req :
        (thread[r].pc = "done" /\ thread[r].error # "none")
        => /\ runs[r].status = "failed"
           /\ \A k \in 1..Len(recent_runs) : recent_runs[k] # r

(***************************************************************************)
(* The statistics of process_logs and later observations.                  *)
(***************************************************************************)
\* The statistics by namespace that main can report for the rows of an
\* input file.
LogsReports(rows) ==
    UNION {LET grouped == LogsGroupByNamespace(DropDuplicates(sorted))
           IN ByAvgDescending(grouped, 1..Len(grouped)) :
              sorted \in SortOutcomes(rows)}

\* Row k of rows is a later observation: rows holds a row of the same
\* PodUID with an earlier Timestamp.
LaterObservation(rows, k) ==
    \E j \in 1..Len(rows) :
        /\ rows[j].PodUID = rows[k].PodUID
        /\ rows[j].Timestamp < rows[k].Timestamp

WithoutRow(rows, k) == SubSeq(rows, 1, k - 1) \o SubSeq(rows, k + 1, Len(rows))

\* C26: the mean, max and count by namespace are computed over exactly one
\* sample per uid, the earliest: the count of a namespace is the number of
\* its uids, and the statistics reported for an input that holds a later
\* observation of a uid are statistics of the input without that row,
\* whatever queue time the later observation carries.
C26_LaterObservationChangesNothing ==
    logs_pc \in {"reported", "rereported"}
    => /\ \A i \in 1..Len(logs_ns_stats) :
             logs_ns_stats[i].Count
                = Cardinality({raw_data[k].PodUID : k \in
                     {j \in 1..Len(raw_data) :
                         raw_data[j].Namespace = logs_ns_stats[i].Namespace}})
       /\ \A k \in 1..Len(raw_data) :
             LaterObservation(raw_data, k)
             => logs_ns_stats \in LogsReports(WithoutRow(raw_data, k))

\* The scenario of the claim: uid 1 of namespace a seen with 10 seconds and
\* later with 12, uid 2 of namespace b seen once; a is reported with one
\* sample of 10 seconds.
C26_Witness ==
    /\ logs_pc = "reported"
    /\ Len(raw_data) = 3
    /\ \E i, j, k \in 1..3 :
          /\ raw_data[i].PodUID = 1 /\ raw_data[i].Timestamp = 1
          /\ raw_data[i].QueueTime = 10
          /\ raw_data[j].PodUID = 1 /\ raw_data[j].Timestamp = 2
          /\ raw_data[j].QueueTime = 12
          /\ raw_data[k].PodUID = 2
    /\ Len(logs_ns_stats) = 2
    /\ \E i \in 1..2 :
          /\ logs_ns_stats[i].Namespace = "a"
          /\ logs_ns_stats[i].SumQueueTime = 10
          /\ logs_ns_stats[i].Count = 1
          /\ logs_ns_stats[i].MaxQueueTime = 10

(***************************************************************************)
(* The completion steps of a thread and the record of another run.         *)
(***************************************************************************)
\* collector.run() of run r has been entered and has neither returned nor
\* raised.
Executing(r) ==
    /\ thread[r].pc = "run"
    /\ collectors[r].pc \notin {"returned", "raised"}

\* C27: the completion steps of one run never modify the record of a
\* different run: while a run is still executing, its record is not marked
\* 'completed', it is not in recent_runs, and it is still the current_run.
C27_CompletionTouchesOwnRunOnly ==
    \A r \in Req :
        Executing(r)
        => /\ runs[r].status # "completed"
           /\ \A k \in 1..Len(recent_runs) : recent_runs[k] # r
           /\ current_run = r

\* Start requests that do not overlap keep the threads apart: never two of
\* them are inside collector.run() at once.
SerialStartsOneThread ==
    Cardinality({r \in Req : thread[r].pc = "run"}) <= 1

(***************************************************************************)
(* The active flag and the current run.                                    *)
(***************************************************************************)
\* C28: in every reachable state of the web application active is true
\* exactly when current_run is non-null with status 'running'.
C28_ActiveIffRunning ==
    active <=> (current_run # None /\ runs[current_run].status = "running")

\* No call is inside start_collection and no thread is between the end of
\* collector.run() and its own end.
AtRest ==
    \A r \in Req : /\ req[r].pc \in {"idle", "returned"}
                   /\ thread[r].pc \in {"none", "run", "done"}

\* What holds when the start requests arrive between runs: the flag and the
\* current run agree whenever no start and no completion is under way.
ActiveMatchesRunAtRest ==
    AtRest => (active <=> (current_run # None /\ runs[current_run].status = "running"))

\* A state at rest in which a run is executing.
RunningAtRest ==
    /\ AtRest
    /\ active
    /\ \E r \in Req : Executing(r) /\ current_run = r

(***************************************************************************)
(* The release of the single-run slot.                                     *)
(***************************************************************************)
\* C29: every accepted start eventually releases the single-run slot:
\* after start_collection has returned success the active flag eventually
\* becomes false, on completion and on failure, and a start_collection
\* call made while it is false is accepted.
C29_SlotEventuallyReleased ==
    /\ \A r \in Req : (req[r].result = "success") ~> ~active
    /\ [][\A r \in Req :
             (~active /\ req[r].pc = "idle" /\ req'[r].pc # "idle")
             => req'[r].pc = "construct"]_vars

\* Two accepted starts, one that failed and one that completed, have both
\* released the slot.
C29_Witness ==
    /\ ~active
    /\ \A r \in Req : req[r].result = "success" /\ thread[r].pc = "done"
    /\ \E r \in Req : runs[r].status = "failed" /\ thread[r].error = "OSError"
    /\ \E r \in Req : runs[r].status = "completed"

(***************************************************************************)
(* A cycle of the monitor without samples.                                 *)
(***************************************************************************)
\* C30: a collection cycle that yields no samples leaves the store
\* unchanged: neither the in-memory historical_data nor the persisted file
\* changes, and nothing is evicted.
C30_EmptyCycleChangesNothing ==
    [][(monitor.pc = "constructed" /\ monitor'.pc # "constructed"
        /\ monitor'.new_data = <<>>)
       => /\ monitor'.historical_data = monitor.historical_data
          /\ csv_file' = csv_file]_vars

\* A cycle whose kubectl call failed has ended, and a sample older than 7
\* days is still in the store and in the file.
C30_Witness ==
    /\ monitor.pc = "done"
    /\ monitor.new_data = <<>>
    /\ monitor.error
    /\ \E k \in 1..Len(monitor.historical_data) :
          monitor.historical_data[k].Timestamp < monitor.now - 604800
    /\ \E k \in 1..Len(csv_file.rows) :
          csv_file.rows[k].Timestamp < monitor.now - 604800
    /\ monitor.historical_data = monitor.historical_before

=============================================================================
